---- MODULE Spec2Model ----
(***************************************************************************)
(* Hardware orchestration of the navigate microscope software:             *)
(*   - the connection registry (device_startup_functions.py),              *)
(*   - the microscope orchestrator (microscope.py),                        *)
(*   - the synthetic DAQ's write/run handoff (devices/daq/synthetic.py).   *)
(* Each part has its own specification over its own variables; the other   *)
(* parts' variables stay at their initial values.                          *)
(***************************************************************************)
EXTENDS Integers, Sequences, FiniteSets, TLC

VARIABLES
    \* ---- connection registry
    serial_connections,      \* SerialConnectionFactory._connections
    integrated_connections,  \* IntegratedDeviceFactory._connections
    last_call,               \* the last registry call and what it gave its caller
    \* ---- microscope orchestrator
    channels,                \* configuration["experiment"]["MicroscopeState"]["channels"]
    current_channel,         \* Microscope.current_channel
    available_channels,      \* Microscope.available_channels
    central_focus,           \* Microscope.central_focus (<<>> is None, <<c>> is c)
    current_laser_index,     \* Microscope.current_laser_index
    ask_stage_for_position,  \* Microscope.ask_stage_for_position
    ret_pos_dict,            \* Microscope.ret_pos_dict
    laser_on,                \* per laser: energized
    shutter_open,            \* the shutter's state
    camera_is_acquiring,     \* camera.is_acquiring
    stage_pos,               \* per axis: the position the controllers report
    device_calls,            \* the device calls of the last microscope operation
    outcome,                 \* the last microscope operation and how it ended
    faults,                  \* device calls that have raised so far
    ring,                    \* channels made current by consecutive advances
    \* ---- synthetic DAQ, one writer thread and one runner thread
    wait_to_run_lock,        \* SyntheticDAQ.wait_to_run_lock: "free" or its holder
    is_updating_analog_task, \* SyntheticDAQ.is_updating_analog_task
    trigger_mode,            \* SyntheticDAQ.trigger_mode
    current_channel_key,     \* SyntheticDAQ.current_channel_key
    writer_pc,               \* the writer thread's position
    runner_pc,               \* the runner thread's position
    frames,                  \* frames the camera generated
    \* ---- stage composition (Microscope.move_stage, move_stage_offset)
    stage_axes,              \* stages_list: per controller, the axes it owns
    stage_offsets,           \* per microscope configuration: its stage offsets
    last_move,               \* the last stage operation, the calls it issued and
                             \* the positions it read
    stage_limits,            \* stage.stage_limits of the controllers
    \* ---- timing plan (Microscope.calculate_exposure_sweep_times)
    timing_cfg,              \* the timing inputs held by the configuration
    timing_plan,             \* Microscope.exposure_times and sweep_times, with
                             \* the inputs they were computed from
    last_timing,             \* the last timing operation and what it returned
    \* ---- coordinator (Controller)
    show_img_pipe,           \* the messages in flight from the worker
    stop_acquisition_flag,   \* Controller.stop_acquisition_flag
    capture,                 \* the capture_image thread: where it is, what it
                             \* received, displayed and indexed the buffer with
    sub_mode,                \* the mode of the sub-controllers
    model_queue,             \* calls waiting for the "model" resource of the pool
    model_busy,              \* the command the worker is processing
    issued,                  \* the commands in the order the coordinator issued them
    processed,               \* the commands in the order the worker took them up
    dropped,                 \* commands that never reached the worker
    stopper,                 \* the thread in sloppy_stop
    \* ---- the data buffer (Microscope.update_data_buffer)
    data_buffer,             \* Microscope.data_buffer: the generation of the buffer
    number_of_frames,        \* Microscope.number_of_frames
    camera_buffer,           \* the buffer the camera's image series writes to
    \* ---- StageController (one axis of the stage tab)
    widget_val,              \* widget_vals[axis]: the number in the entry, or none
    gui_stage_limits,        \* StageController.stage_limits
    event_id,                \* event_id[axis]: the id of the axis's last timer
    gui_timers,              \* the view's pending after() callbacks
    stage_setting,           \* stage_setting_dict[axis]
    last_command,            \* the last execute("stage", position, axis)
    gui_burst,               \* per axis: the inputs handled since its last move command
    gui_last,                \* what the stage tab did last, and on which axis
    \* ---- the ASI serial controllers (Tiger and MS2000)
    safe_to_write,           \* TigerController.safe_to_write (an Event)
    asi_read,                \* the last read_response: what was read, what came of it
    asi_wait,                \* the wait_for_device that is running, if any
    \* ---- Controller.update_event
    event_queue,             \* Controller.event_queue: the event names waiting
    event_loop,              \* the update_event thread: its position, what it handled
    \* ---- SequenceDeviceFactory
    seq_slots,               \* the serial numbers of the devices at slots 0, 1, ...
    seq_connections,         \* SequenceDeviceFactory._connections[device_type]
    seq_returned,            \* the device each serial number was answered with
    seq_count,               \* the connections made so far
    last_lookup,             \* the last build_connection: its arguments and outcome
    \* ---- two threads sharing one TigerController
    thread_pc,               \* where each thread stands in send_command / read_response
    thread_cmd,              \* the command each thread is sending
    exchanges,               \* the command/response pairs each thread has completed
    input_buffer,            \* the replies waiting in the serial port's input buffer
    last_write,              \* the last serial write: its thread and the threads then pending
    last_reply               \* the last read_response: its thread, command and line read

regVars == <<serial_connections, integrated_connections, last_call>>
micVars == <<channels, current_channel, available_channels, central_focus,
             current_laser_index, ask_stage_for_position, ret_pos_dict,
             laser_on, shutter_open, camera_is_acquiring,
             stage_pos, device_calls, outcome, faults, ring>>
daqVars == <<wait_to_run_lock, is_updating_analog_task, trigger_mode,
             current_channel_key, writer_pc, runner_pc, frames>>
stgVars == <<stage_axes, stage_offsets, last_move, stage_limits>>
\* the parts added to the registry, the orchestrator and the DAQ
timVars == <<timing_cfg, timing_plan, last_timing>>
ctlVars == <<show_img_pipe, stop_acquisition_flag, capture, sub_mode,
             model_queue, model_busy, issued, processed, dropped, stopper>>
bufVars == <<data_buffer, number_of_frames, camera_buffer>>
guiVars == <<widget_val, gui_stage_limits, event_id, gui_timers, stage_setting,
             last_command, gui_burst, gui_last>>
asiVars == <<safe_to_write, asi_read, asi_wait>>
evtVars == <<event_queue, event_loop>>
seqVars == <<seq_slots, seq_connections, seq_returned, seq_count, last_lookup>>
thrVars == <<thread_pc, thread_cmd, exchanges, input_buffer, last_write, last_reply>>
extVars == <<stgVars, timVars, ctlVars, bufVars, guiVars, asiVars, evtVars, seqVars, thrVars>>
\* what the stage operations, the timing operations, the coordinator, the
\* buffer operations, the stage tab and the serial controllers leave alone
othersOfStg == <<regVars, daqVars, timVars, ctlVars, bufVars, guiVars, asiVars, evtVars, seqVars, thrVars>>
othersOfTim == <<regVars, daqVars, stgVars, ctlVars, bufVars, guiVars, asiVars, evtVars, seqVars, thrVars>>
othersOfCtl == <<regVars, micVars, daqVars, stgVars, timVars, bufVars, guiVars, asiVars, evtVars, seqVars, thrVars>>
othersOfBuf == <<regVars, daqVars, stgVars, timVars, ctlVars, guiVars, asiVars, evtVars, seqVars, thrVars>>
othersOfGui == <<regVars, micVars, daqVars, stgVars, timVars, ctlVars, bufVars, asiVars, evtVars, seqVars, thrVars>>
othersOfAsi == <<regVars, micVars, daqVars, stgVars, timVars, ctlVars, bufVars, guiVars, evtVars, seqVars, thrVars>>
othersOfEvt == <<regVars, micVars, daqVars, stgVars, timVars, ctlVars, bufVars, guiVars, asiVars, seqVars, thrVars>>
othersOfSeq == <<regVars, micVars, daqVars, stgVars, timVars, ctlVars, bufVars, guiVars, asiVars, evtVars, thrVars>>
othersOfThr == <<regVars, micVars, daqVars, stgVars, timVars, ctlVars, bufVars, guiVars, asiVars, evtVars, seqVars>>
\* what an action of the threads leaves alone besides the ASI variables
othersOfPort == <<regVars, micVars, daqVars, stgVars, timVars, ctlVars, bufVars, guiVars, evtVars, seqVars>>
vars == <<regVars, micVars, daqVars, extVars>>

(***************************************************************************)
(* Connection registry                                                     *)
(***************************************************************************)

\* auto_redial's default n_tries
DefaultTries == 10
\* the largest n_tries a direct auto_redial call is given
MaxTries == 4
\* the most caught failures a connect function given to auto_redial produces
MaxFails == 5

\* the handles a connect function can return; 0 stands for None
Values == {1, 2}
NoneValue == 0
\* args[0] of a serial connect function: a port name, or a port number
Ports == {[type |-> "str", text |-> "COM1"], [type |-> "str", text |-> "3"],
          [type |-> "int", text |-> "3"]}
UniqueIds == {[type |-> "str", text |-> "ASI_123"], [type |-> "str", text |-> "ASI_456"]}

\* A connect function: raises the caught exception type on its first `fails`
\* calls (the i-th call raising error i), then on every later call either
\* returns `val` or raises an exception of another type. With `partial`, a
\* call that raises has opened a session first and leaves it half-open.
ConnectFuncs ==
    [fails : 0..MaxFails, then : {"return", "raise_other"}, val : Values,
     partial : BOOLEAN]

\* the connect functions given to the factories, which redial DefaultTries
\* times: none or one failure, one failure fewer than the tries, and as many
FactoryFuncs ==
    [fails : {0, 1, DefaultTries - 1, DefaultTries},
     then : {"return", "raise_other"}, val : Values, partial : BOOLEAN]

\* what the c-th call of func does
CallOutcome(func, c) ==
    IF c <= func.fails THEN "raise_caught" ELSE func.then

\* the half-open sessions after the c-th call of func raised
LeftOpen(func, c, open) == IF func.partial THEN open \cup {c} ELSE open

\* the for loop of auto_redial from iteration i on: `calls` connect calls
\* made, `val` the local variable, `open` the calls whose half-open session
\* nobody has destroyed
RECURSIVE redial_loop(_, _, _, _, _, _)
redial_loop(func, n_tries, i, calls, val, open) ==
    IF i >= n_tries
    THEN [status |-> "returned", val |-> val, calls |-> calls, open |-> open,
          exc |-> [class |-> "none", context |-> 0]]
    ELSE LET c == calls + 1
             out == CallOutcome(func, c)
         IN  CASE out = "return" ->
                    \* val = func(...), then break
                    [status |-> "returned", val |-> func.val, calls |-> c, open |-> open,
                     exc |-> [class |-> "none", context |-> 0]]
               [] out = "raise_other" ->
                    [status |-> "raised", val |-> NoneValue, calls |-> c,
                     open |-> LeftOpen(func, c, open),
                     exc |-> [class |-> "other", context |-> 0]]
               [] OTHER ->
                    \* the call raised before val was assigned
                    IF i < n_tries - 1
                    THEN IF val # NoneValue
                         THEN \* val.__del__(); del val; val = None
                              redial_loop(func, n_tries, i + 1, c, NoneValue, {})
                         ELSE redial_loop(func, n_tries, i + 1, c, val,
                                          LeftOpen(func, c, open))
                    ELSE \* raise exception: a new instance of the caught type,
                         \* raised while error c is being handled
                         [status |-> "raised", val |-> NoneValue, calls |-> c,
                          open |-> LeftOpen(func, c, open),
                          exc |-> [class |-> "exception", context |-> c]]

\* auto_redial that gives up after the first failure
auto_redial_no_retry(func, n_tries) ==
    redial_loop(func, IF n_tries > 0 THEN 1 ELSE 0, 0, 0, NoneValue, {})

\* auto_redial that tries once more than n_tries
auto_redial_one_more(func, n_tries) == redial_loop(func, n_tries + 1, 0, 0, NoneValue, {})

\* auto_redial that catches every exception type
auto_redial_catch_all(func, n_tries) ==
    redial_loop([func EXCEPT !.fails = IF func.then = "raise_other" THEN MaxFails + n_tries
                                       ELSE @],
                n_tries, 0, 0, NoneValue, {})

auto_redial(func, n_tries) == redial_loop(func, n_tries, 0, 0, NoneValue, {})

\* str(key): a string is its own text, a number its decimal text
Str(key) == key.text

NoCall == [op |-> "none", key |-> "",
           func |-> [fails |-> 0, then |-> "return", val |-> 1, partial |-> FALSE],
           n_tries |-> 0, status |-> "returned", val |-> NoneValue, calls |-> 0, open |-> {},
           exc |-> [class |-> "none", context |-> 0], again |-> FALSE]

CallRecord(op, key, func, n_tries, r) ==
    [op |-> op, key |-> key, func |-> func, n_tries |-> n_tries,
     status |-> r.status, val |-> r.val, calls |-> r.calls, open |-> r.open, exc |-> r.exc,
     again |-> FALSE]

RegInit ==
    /\ serial_connections = <<>>
    /\ integrated_connections = <<>>
    /\ last_call = NoCall

\* a direct call of auto_redial
AutoRedialCall(func, n_tries) ==
    /\ last_call' = CallRecord("auto_redial", "", func, n_tries, auto_redial(func, n_tries))
    /\ UNCHANGED <<serial_connections, integrated_connections, micVars, daqVars, extVars>>

\* build_connection without the lookup of the key
build_connection_always(connections, key, func) ==
    LET r == auto_redial(func, DefaultTries)
    IN  IF r.status = "returned"
        THEN [connections |-> (Str(key) :> r.val) @@ connections, result |-> r]
        ELSE [connections |-> connections, result |-> r]

\* build_connection that keeps an empty handle for a key whose connection
\* failed
build_connection_caches_failure(connections, key, func) ==
    IF Str(key) \notin DOMAIN connections
    THEN LET r == auto_redial(func, DefaultTries)
         IN  [connections |-> (Str(key) :> r.val) @@ connections, result |-> r]
    ELSE [connections |-> connections,
          result |-> [status |-> "returned", val |-> connections[Str(key)], calls |-> 0,
                      open |-> {}, exc |-> [class |-> "none", context |-> 0]]]

\* cls._connections after build_connection(key) with connect function func,
\* and what the call gives its caller
build_connection(connections, key, func) ==
    IF Str(key) \notin DOMAIN connections
    THEN LET r == auto_redial(func, DefaultTries)
         IN  IF r.status = "returned"
             THEN [connections |-> (Str(key) :> r.val) @@ connections, result |-> r]
             ELSE [connections |-> connections, result |-> r]
    ELSE [connections |-> connections,
          result |-> [status |-> "returned", val |-> connections[Str(key)], calls |-> 0,
                      open |-> {}, exc |-> [class |-> "none", context |-> 0]]]

\* the call before this one was a build_connection of factory op for key
\* that raised
FailedBefore(op, key) ==
    last_call.op = op /\ last_call.key = key /\ last_call.status = "raised"

SerialBuildConnection(port, func) ==
    LET b == build_connection(serial_connections, port, func)
    IN  /\ serial_connections' = b.connections
        /\ last_call' = [CallRecord("serial", Str(port), func, DefaultTries, b.result)
                            EXCEPT !.again = FailedBefore("serial", Str(port))]
        /\ UNCHANGED <<integrated_connections, micVars, daqVars, extVars>>

IntegratedBuildConnection(unique_id, func) ==
    LET b == build_connection(integrated_connections, unique_id, func)
    IN  /\ integrated_connections' = b.connections
        /\ last_call' = [CallRecord("integrated", Str(unique_id), func, DefaultTries,
                                    b.result)
                            EXCEPT !.again = FailedBefore("integrated", Str(unique_id))]
        /\ UNCHANGED <<serial_connections, micVars, daqVars, extVars>>

NextRedial ==
    \E func \in ConnectFuncs, n \in 0..MaxTries : AutoRedialCall(func, n)

NextReg ==
    \/ \E port \in Ports, func \in FactoryFuncs : SerialBuildConnection(port, func)
    \/ \E uid \in UniqueIds, func \in FactoryFuncs : IntegratedBuildConnection(uid, func)

\* C1: when the connect function raises the caught exception on its first k
\* calls, k < n_tries, and then returns a value, auto_redial returns that
\* value after exactly k+1 calls of the connect function.
C1_RetryThenSucceed ==
    (/\ last_call.op = "auto_redial"
     /\ last_call.func.fails < last_call.n_tries
     /\ last_call.func.then = "return")
    => /\ last_call.status = "returned"
       /\ last_call.val = last_call.func.val
       /\ last_call.calls = last_call.func.fails + 1

\* two failures, then a success on the third of four tries
C1_Witness ==
    /\ last_call.op = "auto_redial"
    /\ last_call.func.fails = 2
    /\ last_call.n_tries = MaxTries
    /\ last_call.func.then = "return"
    /\ last_call.status = "returned"
    /\ last_call.calls = 3

\* C2: with n_tries >= 1 and a connect function that raises the caught
\* exception on every call, auto_redial raises after exactly n_tries calls
\* and returns no value.
C2_RaisesAfterAllTries ==
    (/\ last_call.op = "auto_redial"
     /\ last_call.n_tries >= 1
     /\ last_call.func.fails >= last_call.n_tries)
    => /\ last_call.status = "raised"
       /\ last_call.exc.class = "exception"
       /\ last_call.val = NoneValue
       /\ last_call.calls = last_call.n_tries

\* three tries, all failed, by a function that would have succeeded on the fourth
C2_Witness ==
    /\ last_call.op = "auto_redial"
    /\ last_call.n_tries = 3
    /\ last_call.func.fails = 3
    /\ last_call.func.then = "return"
    /\ last_call.status = "raised"
    /\ last_call.calls = 3

\* what a factory call on `connections` for key must look like once the key
\* has a connection: the stored handle, no connect call, nothing replaced
IdempotentStep(op, connections, connectionsNext) ==
    \A key \in DOMAIN connections :
        /\ key \in DOMAIN connectionsNext
        /\ connectionsNext[key] = connections[key]
        /\ (last_call'.op = op /\ last_call'.key = key)
              => /\ last_call'.status = "returned"
                 /\ last_call'.val = connections[key]
                 /\ last_call'.calls = 0

\* a successful first call stores the handle it returns
StoresResult(op, connections, connectionsNext) ==
    (last_call'.op = op /\ last_call'.key \notin DOMAIN connections
       /\ last_call'.status = "returned")
    => /\ last_call'.key \in DOMAIN connectionsNext
       /\ connectionsNext[last_call'.key] = last_call'.val

\* C25: when every one of the n_tries attempts fails, the error raised to the
\* caller is a ConnectionFailed error that carries the last underlying error.
C25_ConnectionFailedWraps ==
    (/\ last_call.op = "auto_redial"
     /\ last_call.n_tries >= 1
     /\ last_call.func.fails >= last_call.n_tries)
    => /\ last_call.status = "raised"
       /\ last_call.exc.class = "ConnectionFailed"
       /\ last_call.exc.context = last_call.n_tries

\* C26: a half-open session left by a failed attempt is destroyed before the
\* next attempt starts: when auto_redial finishes, no attempt that was
\* followed by another one has its session still open.
C26_NoHalfOpenSession ==
    last_call.op = "auto_redial"
        => last_call.open \cap 1..(last_call.calls - 1) = {}

\* C27: an exception of a type other than the caught one propagates to the
\* caller from the call that raised it, with no further call; raised by the
\* first call, it propagates after exactly one invocation.
C27_OtherTypePropagates ==
    (/\ last_call.op = "auto_redial"
     /\ last_call.func.then = "raise_other"
     /\ last_call.func.fails < last_call.n_tries)
    => /\ last_call.status = "raised"
       /\ last_call.exc.class = "other"
       /\ last_call.calls = last_call.func.fails + 1

\* the first call raises another type although three tries are left
C27_Witness ==
    /\ last_call.op = "auto_redial"
    /\ last_call.func.then = "raise_other"
    /\ last_call.func.fails = 0
    /\ last_call.n_tries = 3
    /\ last_call.status = "raised"
    /\ last_call.exc.class = "other"
    /\ last_call.calls = 1

\* C3: once build_connection has succeeded for a key, every later call of
\* the same factory with that key returns the same handle and calls the
\* connect function no more.
C3_ConnectionIdempotent ==
    [][/\ IdempotentStep("serial", serial_connections, serial_connections')
       /\ StoresResult("serial", serial_connections, serial_connections')
       /\ IdempotentStep("integrated", integrated_connections, integrated_connections')
       /\ StoresResult("integrated", integrated_connections, integrated_connections')]_vars

\* a later call for a connected port, given a connect function that would
\* return another handle, returned the stored one without connecting
C3_Witness ==
    /\ last_call.op = "serial"
    /\ last_call.key \in DOMAIN serial_connections
    /\ last_call.calls = 0
    /\ last_call.func.fails = 0
    /\ last_call.func.then = "return"
    /\ last_call.func.val # last_call.val
    /\ last_call.val = serial_connections[last_call.key]

\* a build_connection of factory op that raises stores nothing for its
\* key, and the next one for that key calls the connect function
NoCachedFailure(op, connections, connectionsNext) ==
    last_call'.op = op
    => /\ last_call'.status = "raised"
            => /\ connectionsNext = connections
               /\ last_call'.key \notin DOMAIN connectionsNext
       /\ last_call'.again
            => /\ last_call'.calls >= 1
               /\ last_call'.status = "returned"
                    => /\ last_call'.val = last_call'.func.val
                       /\ connectionsNext[last_call'.key] = last_call'.val

\* C40: a build_connection whose attempts all raise stores no entry for its
\* key: the next build_connection with that key calls the connect function
\* again and, when that succeeds, answers and stores the new handle; no key
\* is ever stored with an empty handle.
C40_FailureNotCached ==
    /\ [][/\ NoCachedFailure("serial", serial_connections, serial_connections')
          /\ NoCachedFailure("integrated", integrated_connections,
                             integrated_connections')]_vars
    /\ [](\A k \in DOMAIN serial_connections : serial_connections[k] # NoneValue)
    /\ [](\A k \in DOMAIN integrated_connections :
              integrated_connections[k] # NoneValue)

\* a port whose connection failed on all DefaultTries attempts was asked for
\* again: the connect function was called and its handle stored
C40_Witness ==
    /\ last_call.op = "serial"
    /\ last_call.again
    /\ last_call.status = "returned"
    /\ last_call.calls = 1
    /\ last_call.key \in DOMAIN serial_connections
    /\ serial_connections[last_call.key] = last_call.val

(***************************************************************************)
(* Microscope orchestrator                                                 *)
(***************************************************************************)

\* channels are keyed channel_1 .. channel_NumChannels
NumChannels == 3
\* lasers are indexed 0 .. NumLasers-1 (laser_wavelength's indices)
NumLasers == 2
\* the focus axis accepts targets within its limits
StageLimits == {0, 1, 2}
\* at most MaxFaults device calls raise in one run
MaxFaults == 1
\* current_channel before the first prepare_acquisition (None)
NoChannel == -1

Channels == 1..NumChannels
Lasers == 0..(NumLasers - 1)
Axes == {"x", "y", "z", "f"}
None == <<>>
Some(v) == <<v>>

\* stages_list: the controllers in configuration order, each with its axes
stages_list == <<{"x", "y"}, {"z", "f"}>>
Controllers == 1..Len(stages_list)
\* self.stages[axis]: the controller that serves a single-axis move
stages(axis) == CHOOSE s \in Controllers : axis \in stages_list[s]

ChannelLaserIndex(c) == (c - 1) % NumLasers
ChannelLaserPower(c) == 10 * c

\* channel c's defocus: zero for the odd channels, one for the even ones
ChannelDefocus(c) == (c - 1) % 2

\* the experiment's channel settings: any set of channels may be selected
ChannelSettings ==
    {[c \in Channels |-> [is_selected |-> c \in sel, defocus |-> ChannelDefocus(c)]] :
        sel \in SUBSET Channels}

Call(dev, id, op, val) == [dev |-> dev, id |-> id, op |-> op, val |-> val]

\* the orchestrator's state as one record; tmp, raised (an exception leaves
\* the operation) and at (the device call that raised it) are locals of the
\* operation that is running
Mic ==
    [channels |-> channels, current_channel |-> current_channel,
     available_channels |-> available_channels, central_focus |-> central_focus,
     current_laser_index |-> current_laser_index,
     ask_stage_for_position |-> ask_stage_for_position,
     ret_pos_dict |-> ret_pos_dict, laser_on |-> laser_on,
     shutter_open |-> shutter_open,
     camera_is_acquiring |-> camera_is_acquiring,
     stage_pos |-> stage_pos,
     device_calls |-> <<>>, tmp |-> None, raised |-> FALSE, at |-> ""]

\* get_available_channels: the selected channels, in key order
RECURSIVE selected_from(_, _)
selected_from(chs, c) ==
    IF c > NumChannels THEN <<>>
    ELSE IF chs[c].is_selected THEN <<c>> \o selected_from(chs, c + 1)
    ELSE selected_from(chs, c + 1)

get_available_channels(chs) == selected_from(chs, 1)

IndexOf(seq, v) == CHOOSE i \in 1..Len(seq) : seq[i] = v
InSeq(seq, v) == \E i \in 1..Len(seq) : seq[i] = v

\* an advance that takes the 0-based index for a position in the list
next_channel_skips(cur, avail) ==
    IF cur = 0 THEN avail[1]
    ELSE avail[((IndexOf(avail, cur) + 1) % Len(avail)) + 1]

\* lines 740-748: the channel prepare_next_channel makes current
next_channel(cur, avail) ==
    IF cur = 0 THEN avail[1]
    ELSE avail[(IndexOf(avail, cur) % Len(avail)) + 1]

\* a stage controller's absolute move of one axis: rejected (False, no
\* movement) outside the limits or when the controller fails
stage_move(m, axis, target) ==
    LET accepted == target \in StageLimits
    IN  [m EXCEPT
           !.device_calls = Append(@, Call("stage_" \o axis, stages(axis), "move_axis_absolute", target)),
           !.stage_pos = IF accepted THEN [@ EXCEPT ![axis] = target] ELSE @]

\* stage.report_position() merged into ret_pos_dict (lines 897-898)
report_position(m, s) ==
    [m EXCEPT
       !.device_calls = Append(@, Call("stage", s, "report_position", 0)),
       !.ret_pos_dict = [a \in Axes |-> IF a \in stages_list[s] THEN m.stage_pos[a] ELSE @[a]]]

\* the steps that are plain statements, with no device call
Statements == {"begin_prepare", "laser_index", "focus_record", "defocus_begin",
               "stop_begin", "stop_record", "restore_begin", "end_reset"}

\* Does step s issue a device call in state m?
IsCall(m, s) ==
    CASE s.k = "close_image_series" -> m.camera_is_acquiring
      [] s.k = "report_if_asked" -> m.ask_stage_for_position
      [] s.k = "focus_report" -> m.central_focus = None /\ m.ask_stage_for_position
      [] s.k = "defocus_move" -> m.tmp # None
      [] s.k = "restore_move" -> m.tmp # None
      [] s.k \in Statements -> FALSE
      [] OTHER -> TRUE

\* where an operation can raise: 0 (nowhere) or at one of its device calls
FailPoints(steps) ==
    {0} \cup {i \in 1..Len(steps) : faults < MaxFaults /\ steps[i].k \notin Statements}

\* One step of an operation: a device call with the statements around it.
Exec(m, s) ==
    CASE \* ---- prepare_acquisition
         s.k = "begin_prepare" ->
            [m EXCEPT !.current_channel = 0, !.central_focus = None,
                      !.available_channels = get_available_channels(m.channels)]
      [] s.k = "close_image_series" ->
            IF m.camera_is_acquiring
            THEN [m EXCEPT !.camera_is_acquiring = FALSE,
                           !.device_calls = Append(@, Call("camera", 0, "close_image_series", 0))]
            ELSE m
      [] s.k = "camera_setup" ->
            [m EXCEPT !.device_calls = Append(@, Call("camera", 0, s.op, 0))]
      [] s.k = "initialize_image_series" ->
            [m EXCEPT !.camera_is_acquiring = TRUE,
                      !.device_calls = Append(@, Call("camera", 0, "initialize_image_series", 0))]
      [] s.k = "open_shutter" ->
            [m EXCEPT !.shutter_open = TRUE,
                      !.device_calls = Append(@, Call("shutter", 0, "open_shutter", 0))]
      [] s.k = "calculate_all_waveforms" ->
            [m EXCEPT !.device_calls = Append(@, Call("daq", 0, "calculate_all_waveforms", 0))]
         \* ---- prepare_next_channel
      [] s.k = "set_filter" ->
            [m EXCEPT !.device_calls = Append(@, Call("filter_wheel", 0, "set_filter", m.current_channel))]
      [] s.k = "set_exposure_time" ->
            [m EXCEPT !.device_calls = Append(@, Call("camera", 0, "set_exposure_time", m.current_channel))]
      [] s.k = "laser_index" ->
            [m EXCEPT !.current_laser_index = ChannelLaserIndex(m.current_channel)]
      [] s.k = "laser_off" ->
            [m EXCEPT !.laser_on = [@ EXCEPT ![s.i] = FALSE],
                      !.device_calls = Append(@, Call("laser", s.i, "turn_off", 0))]
      [] s.k = "set_power" ->
            [m EXCEPT !.device_calls = Append(@, Call("laser", m.current_laser_index, "set_power",
                                                      ChannelLaserPower(m.current_channel)))]
      [] s.k = "daq_stop" ->
            [m EXCEPT !.device_calls = Append(@, Call("daq", 0, "stop_acquisition", 0))]
      [] s.k = "daq_prepare" ->
            [m EXCEPT !.device_calls = Append(@, Call("daq", 0, "prepare_acquisition", m.current_channel))]
      [] s.k = "focus_report" ->
            IF m.central_focus = None /\ m.ask_stage_for_position
            THEN report_position(m, s.i) ELSE m
      [] s.k = "focus_record" ->
            IF m.central_focus = None
            THEN [m EXCEPT !.ask_stage_for_position = FALSE,
                           !.central_focus = Some(m.ret_pos_dict["f"])]
            ELSE m
      [] s.k = "defocus_begin" ->
            IF m.central_focus # None
            THEN [m EXCEPT !.ask_stage_for_position = TRUE,
                           !.tmp = Some(m.central_focus[1]
                                        + m.channels[m.current_channel].defocus)]
            ELSE m
      [] s.k = "defocus_move" ->
            IF m.tmp # None
            THEN [stage_move(m, "f", m.tmp[1]) EXCEPT !.tmp = None]
            ELSE m
         \* ---- end_acquisition
      [] s.k = "stop_begin" -> [m EXCEPT !.ask_stage_for_position = TRUE]
      [] s.k = "stage_stop" ->
            [m EXCEPT !.device_calls = Append(@, Call("stage", s.i, "stop", 0))]
      [] s.k = "report_if_asked" ->
            IF m.ask_stage_for_position THEN report_position(m, s.i) ELSE m
      [] s.k = "stop_record" ->
            [m EXCEPT !.ask_stage_for_position = FALSE,
                      !.central_focus = Some(m.ret_pos_dict["f"])]
      [] s.k = "restore_begin" ->
            IF m.central_focus # None
            THEN [m EXCEPT !.ask_stage_for_position = TRUE,
                           !.tmp = m.central_focus,
                           !.central_focus = None]
            ELSE m
      [] s.k = "restore_move" ->
            IF m.tmp # None
            THEN [stage_move(m, "f", m.tmp[1]) EXCEPT !.tmp = None]
            ELSE m
      [] s.k = "close_shutter" ->
            [m EXCEPT !.shutter_open = FALSE,
                      !.device_calls = Append(@, Call("shutter", 0, "close_shutter", 0))]
      [] s.k = "end_reset" ->
            [m EXCEPT !.current_channel = 0, !.central_focus = None]
         \* ---- turn_on_laser
      [] s.k = "laser_on" ->
            [m EXCEPT !.laser_on = [@ EXCEPT ![m.current_laser_index] = TRUE],
                      !.device_calls = Append(@, Call("laser", m.current_laser_index, "turn_on", 0))]

\* The steps from the i-th on; the device call of step failAt raises (0: none).
RECURSIVE Run(_, _, _, _)
Run(m, steps, i, failAt) ==
    IF i > Len(steps) THEN m
    ELSE IF i = failAt /\ IsCall(m, steps[i])
         THEN [m EXCEPT !.raised = TRUE, !.at = steps[i].k]
    ELSE Run(Exec(m, steps[i]), steps, i + 1, failAt)

Step(k) == [k |-> k, i |-> 0, op |-> ""]
StepI(k, i) == [k |-> k, i |-> i, op |-> ""]
StepOp(k, op) == [k |-> k, i |-> 0, op |-> op]

ForEach(k, n0, n1) == [j \in 1..(n1 - n0 + 1) |-> StepI(k, n0 + j - 1)]


\* prepare_acquisition (lines 408-443), its device calls in order
prepare_acquisition_steps ==
    <<Step("begin_prepare"), Step("close_image_series"),
      StepOp("camera_setup", "set_ROI"), StepOp("camera_setup", "set_sensor_mode"),
      StepOp("camera_setup", "set_binning"), Step("initialize_image_series"),
      Step("open_shutter"), Step("calculate_all_waveforms")>>

prepare_acquisition(m, failAt) == Run(m, prepare_acquisition_steps, 1, failAt)

\* prepare_next_channel that sets the power first and leaves the last laser on
prepare_next_channel_steps_power_first(update_daq_task_flag) ==
    <<Step("set_filter"), Step("set_exposure_time"), Step("laser_index"), Step("set_power")>>
    \o ForEach("laser_off", 0, NumLasers - 2)
    \o (IF update_daq_task_flag THEN <<Step("daq_stop"), Step("daq_prepare")>> ELSE <<>>)
    \o ForEach("focus_report", 1, Len(stages_list))
    \o <<Step("focus_record"), Step("defocus_begin"), Step("defocus_move")>>

\* prepare_next_channel after the advance (lines 752-794)
prepare_next_channel_steps(update_daq_task_flag) ==
    <<Step("set_filter"), Step("set_exposure_time"), Step("laser_index")>>
    \o ForEach("laser_off", 0, NumLasers - 1)
    \o <<Step("set_power")>>
    \o (IF update_daq_task_flag THEN <<Step("daq_stop"), Step("daq_prepare")>> ELSE <<>>)
    \o ForEach("focus_report", 1, Len(stages_list))
    \o <<Step("focus_record"), Step("defocus_begin"), Step("defocus_move")>>

\* the advance itself raises when there is no channel to take or the current
\* one is not among the available ones
advance_raises(m) ==
    \/ Len(m.available_channels) = 0
    \/ m.current_channel # 0 /\ ~InSeq(m.available_channels, m.current_channel)

\* prepare_next_channel without the early return of lines 749-750
prepare_next_channel_no_return(m, update_daq_task_flag, failAt) ==
    IF advance_raises(m) THEN [m EXCEPT !.raised = TRUE]
    ELSE Run([m EXCEPT !.current_channel =
                         next_channel(m.current_channel, m.available_channels)],
             prepare_next_channel_steps(update_daq_task_flag), 1, failAt)

\* prepare_next_channel whose move takes the target for the new central focus
prepare_next_channel_update_focus(m, update_daq_task_flag, failAt) ==
    IF advance_raises(m) THEN [m EXCEPT !.raised = TRUE]
    ELSE LET nxt == next_channel(m.current_channel, m.available_channels)
             r == Run([m EXCEPT !.current_channel = nxt],
                      prepare_next_channel_steps(update_daq_task_flag), 1, failAt)
         IN  IF nxt = m.current_channel THEN m
             ELSE IF r.raised \/ r.central_focus = None THEN r
             ELSE [r EXCEPT !.central_focus =
                                Some(@[1] + m.channels[nxt].defocus)]

prepare_next_channel(m, update_daq_task_flag, failAt) ==
    IF advance_raises(m) THEN [m EXCEPT !.raised = TRUE]
    ELSE LET nxt == next_channel(m.current_channel, m.available_channels)
         IN  IF nxt = m.current_channel THEN m
             ELSE Run([m EXCEPT !.current_channel = nxt],
                      prepare_next_channel_steps(update_daq_task_flag), 1, failAt)

\* end_acquisition (lines 530-540) with stop_stage (880-885) and move_stage (851-860)
end_acquisition_steps ==
    <<Step("daq_stop"), Step("stop_begin")>>
    \o ForEach("stage_stop", 1, Len(stages_list))
    \o ForEach("report_if_asked", 1, Len(stages_list))
    \o <<Step("stop_record"), Step("restore_begin"), Step("restore_move"),
         Step("close_image_series"), Step("close_shutter")>>
    \o ForEach("laser_off", 0, NumLasers - 1)
    \o <<Step("end_reset")>>

\* end_acquisition that leaves the shutter as it is
end_acquisition_no_shutter(m, failAt) ==
    Run(m, SelectSeq(end_acquisition_steps, LAMBDA s : s.k # "close_shutter"), 1, failAt)

end_acquisition(m, failAt) == Run(m, end_acquisition_steps, 1, failAt)

turn_on_laser_steps == <<Step("laser_on")>>

turn_on_laser(m, failAt) == Run(m, turn_on_laser_steps, 1, failAt)

MicInit ==
    /\ channels \in ChannelSettings
    /\ current_channel = NoChannel
    /\ available_channels = <<>>
    /\ central_focus = None
    /\ current_laser_index = 0
    /\ ask_stage_for_position = TRUE
    /\ ret_pos_dict = [a \in Axes |-> 0]
    /\ laser_on = [l \in Lasers |-> FALSE]
    /\ shutter_open = FALSE
    /\ camera_is_acquiring = FALSE
    /\ stage_pos = [a \in Axes |-> 0]
    /\ device_calls = <<>>
    /\ outcome = [op |-> "init", raised |-> FALSE, at |-> ""]
    /\ faults = 0
    /\ ring = <<NoChannel>>

LastN(seq, n) == IF Len(seq) <= n THEN seq ELSE SubSeq(seq, Len(seq) - n + 1, Len(seq))

\* the operation `op` took the orchestrator to r
CommitMic(op, r, newRing) ==
    /\ channels' = r.channels
    /\ current_channel' = r.current_channel
    /\ available_channels' = r.available_channels
    /\ central_focus' = r.central_focus
    /\ current_laser_index' = r.current_laser_index
    /\ ask_stage_for_position' = r.ask_stage_for_position
    /\ ret_pos_dict' = r.ret_pos_dict
    /\ laser_on' = r.laser_on
    /\ shutter_open' = r.shutter_open
    /\ camera_is_acquiring' = r.camera_is_acquiring
    /\ stage_pos' = r.stage_pos
    /\ device_calls' = r.device_calls
    /\ outcome' = [op |-> op, raised |-> r.raised, at |-> r.at]
    /\ faults' = IF r.at # "" THEN faults + 1 ELSE faults
    /\ ring' = newRing

Commit(op, r, newRing) ==
    /\ CommitMic(op, r, newRing)
    /\ UNCHANGED <<regVars, daqVars, extVars>>

PrepareAcquisition(failAt) ==
    \E r \in {prepare_acquisition(Mic, failAt)} :
        Commit("prepare_acquisition", r, <<r.current_channel>>)

PrepareNextChannel(update_daq_task_flag, failAt) ==
    \E r \in {prepare_next_channel(Mic, update_daq_task_flag, failAt)} :
        Commit("prepare_next_channel", r,
               IF advance_raises(Mic) THEN ring
               ELSE LastN(Append(ring, r.current_channel), Len(available_channels) + 1))

EndAcquisition(failAt) ==
    \E r \in {end_acquisition(Mic, failAt)} :
        Commit("end_acquisition", r, <<r.current_channel>>)

TurnOnLaser(failAt) ==
    \E r \in {turn_on_laser(Mic, failAt)} : Commit("turn_on_laser", r, ring)

NextMic ==
    \/ \E failAt \in FailPoints(prepare_acquisition_steps) : PrepareAcquisition(failAt)
    \/ \E flag \in BOOLEAN : \E failAt \in FailPoints(prepare_next_channel_steps(flag)) :
            PrepareNextChannel(flag, failAt)
    \/ \E failAt \in FailPoints(end_acquisition_steps) : EndAcquisition(failAt)
    \/ \E failAt \in FailPoints(turn_on_laser_steps) : TurnOnLaser(failAt)

Issued(dev, op) == \E i \in 1..Len(device_calls) :
    device_calls[i].dev = dev /\ device_calls[i].op = op

IssuedTo(dev, id, op) == \E i \in 1..Len(device_calls) :
    device_calls[i].dev = dev /\ device_calls[i].id = id /\ device_calls[i].op = op

LasersOff == \A l \in Lasers : ~laser_on[l]

\* C4: with N >= 1 selected channels and a selected channel current, N
\* consecutive calls of prepare_next_channel make the selected channels
\* current one after the other in available_channels order, each once, and
\* end on the channel that was current before them.
C4_ChannelRing ==
    LET N == Len(available_channels)
    IN  (N >= 1 /\ Len(ring) = N + 1 /\ InSeq(available_channels, ring[1]))
        => /\ ring[N + 1] = ring[1]
           /\ \A j \in 1..N :
                 ring[j + 1] = available_channels[
                     ((IndexOf(available_channels, ring[1]) + j - 1) % N) + 1]
           /\ \A c \in Channels :
                 InSeq(available_channels, c)
                   => Cardinality({j \in 1..N : ring[j + 1] = c}) = 1

\* three channels selected, the second one current, three advances made
C4_Witness ==
    /\ Len(available_channels) = 3
    /\ Len(ring) = 4
    /\ ring[1] = available_channels[2]
    /\ current_channel = available_channels[2]
    /\ outcome.op = "prepare_next_channel"

\* C5 as stated: with exactly one channel selected, every call of
\* prepare_next_channel in an acquisition issues no device command.
C5_EveryCallNoOp ==
    (outcome.op = "prepare_next_channel" /\ Len(available_channels) = 1)
    => device_calls = <<>>

\* C5 as amended: with exactly one channel selected, a call of
\* prepare_next_channel made while that channel is current (every call of
\* the acquisition but the first) issues no device command, raises nothing
\* and leaves the channel current.
C5_NoOpOnceCurrent ==
    (/\ outcome.op = "prepare_next_channel"
     /\ Len(available_channels) = 1
     /\ ring[Len(ring) - 1] = available_channels[1])
    => /\ device_calls = <<>>
       /\ ~outcome.raised
       /\ current_channel = available_channels[1]

\* one channel selected, current since an earlier call, its laser on, and
\* prepare_next_channel called again
C5_Witness ==
    /\ outcome.op = "prepare_next_channel"
    /\ Len(available_channels) = 1
    /\ Len(ring) = 2
    /\ ring[1] = available_channels[1]
    /\ ring[2] = available_channels[1]
    /\ laser_on[current_laser_index]
    /\ device_calls = <<>>

\* C33: a channel advance turns every laser off before it sets the power of
\* the new channel's laser and turns no laser on; when it returns, all
\* lasers are off.
C33_LasersOffBeforePower ==
    outcome.op = "prepare_next_channel"
    => /\ \A i \in DOMAIN device_calls :
             (device_calls[i].dev = "laser" /\ device_calls[i].op = "set_power")
             => \A l \in Lasers : \E j \in 1..(i - 1) :
                    device_calls[j] = Call("laser", l, "turn_off", 0)
       /\ ~Issued("laser", "turn_on")
       /\ (~outcome.raised /\ device_calls # <<>>)
             => /\ LasersOff
                /\ IssuedTo("laser", current_laser_index, "set_power")

\* the second advance of an acquisition returned: power set on laser 1
C33_Witness ==
    /\ outcome.op = "prepare_next_channel"
    /\ ~outcome.raised
    /\ Len(ring) = 3
    /\ ring[2] # ring[3]
    /\ IssuedTo("laser", 1, "set_power")
    /\ current_laser_index = 1
    /\ LasersOff

\* the focus moves commanded by the last operation
FocusTargets ==
    {device_calls[i].val : i \in {j \in DOMAIN device_calls :
        device_calls[j].dev = "stage_f" /\ device_calls[j].op = "move_axis_absolute"}}

\* C34: the focus target commanded on a channel advance is the central focus
\* plus the defocus of the new channel; the central focus is the focus
\* position at the first advance of the acquisition and no later advance
\* changes it, so the offsets do not accumulate.
C34_DefocusFromCentralFocus ==
    /\ [](outcome.op = "prepare_next_channel" /\ ~outcome.raised /\ device_calls # <<>>
            => /\ central_focus # None
               /\ FocusTargets = {central_focus[1] + ChannelDefocus(current_channel)})
    /\ [][outcome'.op = "prepare_next_channel" /\ central_focus # None
            => central_focus' = central_focus]_vars
    /\ [][outcome'.op = "prepare_next_channel" /\ central_focus = None
            /\ central_focus' # None
            => central_focus' = Some(stage_pos["f"])]_vars

\* the third advance of an acquisition: its target is again the central
\* focus itself, after an advance that went one above it
C34_Witness ==
    /\ outcome.op = "prepare_next_channel"
    /\ ~outcome.raised
    /\ Len(ring) = 4
    /\ ring[2] = 1 /\ ring[3] = 2 /\ ring[4] = 3
    /\ central_focus = Some(1)
    /\ FocusTargets = {1}
    /\ stage_pos["f"] = 1

\* C6: when a device call raises during prepare_next_channel, the error
\* leaves the operation with every laser off and the shutter closed.
C6_CleanupOnFailure ==
    (outcome.op = "prepare_next_channel" /\ outcome.at # "")
    => LasersOff /\ ~shutter_open

\* C7: when end_acquisition returns, the DAQ and every stage controller have
\* been stopped, the camera is not acquiring, the shutter is closed, every
\* laser is off, current_channel is 0 and central_focus is None.
C7_EndAcquisitionState ==
    (outcome.op = "end_acquisition" /\ ~outcome.raised)
    => /\ Issued("daq", "stop_acquisition")
       /\ \A s \in Controllers : IssuedTo("stage", s, "stop")
       /\ ~camera_is_acquiring
       /\ ~shutter_open
       /\ LasersOff
       /\ current_channel = 0
       /\ central_focus = None

\* end_acquisition returned after an acquisition that was running: the image
\* series was closed by it, and the second channel had been reached
C7_Witness ==
    /\ outcome.op = "end_acquisition"
    /\ ~outcome.raised
    /\ Issued("camera", "close_image_series")
    /\ Issued("shutter", "close_shutter")
    /\ current_laser_index = 1
    /\ current_channel = 0

\* C8: when a central focus c is recorded and the focus axis stands
\* elsewhere (a channel's defocus moved it), end_acquisition commands the
\* focus axis to c.
C8_RestoresCentralFocus ==
    [][(/\ outcome'.op = "end_acquisition"
        /\ ~outcome'.raised
        /\ central_focus # None
        /\ stage_pos["f"] # central_focus[1])
       => \E i \in 1..Len(device_calls') :
             /\ device_calls'[i].dev = "stage_f"
             /\ device_calls'[i].op = "move_axis_absolute"
             /\ device_calls'[i].val = central_focus[1]]_vars

\* C9: when stopping the DAQ, stopping the stage, restoring the focus or
\* closing the image series raises in end_acquisition, the shutter is closed
\* and every laser is off when the error leaves it.
C9_SafeWhenEndRaises ==
    (/\ outcome.op = "end_acquisition"
     /\ outcome.at \in {"daq_stop", "stage_stop", "report_if_asked",
                         "restore_move", "close_image_series"})
    => LasersOff /\ ~shutter_open

(***************************************************************************)
(* Synthetic DAQ: one thread writes waveforms, one runs acquisitions       *)
(***************************************************************************)

\* the runner stops starting acquisitions after MaxFrames frames
MaxFrames == 3

DaqInit ==
    /\ wait_to_run_lock = "free"
    /\ is_updating_analog_task = FALSE
    /\ trigger_mode = "self-trigger"
    /\ current_channel_key = 0
    /\ writer_pc = "idle"
    /\ runner_pc = "idle"
    /\ frames = 0

\* ---- the writer thread: update_analog_task (lines 186-193)
UpdateCheck ==
    /\ writer_pc = "idle"
    /\ writer_pc' = IF is_updating_analog_task THEN "idle" ELSE "update_acquire"
    /\ UNCHANGED <<wait_to_run_lock, is_updating_analog_task, trigger_mode,
                   current_channel_key, runner_pc, frames>>
    /\ UNCHANGED <<regVars, micVars, extVars>>

UpdateAcquire ==
    /\ writer_pc = "update_acquire"
    /\ wait_to_run_lock = "free"
    /\ wait_to_run_lock' = "writer"
    /\ writer_pc' = "update_set"
    /\ UNCHANGED <<is_updating_analog_task, trigger_mode, current_channel_key,
                   runner_pc, frames>>
    /\ UNCHANGED <<regVars, micVars, extVars>>

UpdateSetFlag ==
    /\ writer_pc = "update_set"
    /\ is_updating_analog_task' = TRUE
    /\ writer_pc' = "update_clear"
    /\ UNCHANGED <<wait_to_run_lock, trigger_mode, current_channel_key, runner_pc, frames>>
    /\ UNCHANGED <<regVars, micVars, extVars>>

UpdateClearFlag ==
    /\ writer_pc = "update_clear"
    /\ is_updating_analog_task' = FALSE
    /\ writer_pc' = "update_release"
    /\ UNCHANGED <<wait_to_run_lock, trigger_mode, current_channel_key, runner_pc, frames>>
    /\ UNCHANGED <<regVars, micVars, extVars>>

\* Lock.release() raises RuntimeError on an unlocked lock
UpdateRelease ==
    /\ writer_pc = "update_release"
    /\ wait_to_run_lock' = "free"
    /\ writer_pc' = IF wait_to_run_lock = "free" THEN "error" ELSE "idle"
    /\ UNCHANGED <<is_updating_analog_task, trigger_mode, current_channel_key,
                   runner_pc, frames>>
    /\ UNCHANGED <<regVars, micVars, extVars>>

\* ---- the writer thread: prepare_acquisition (lines 136-139)
PrepareSetKey(channel_key) ==
    /\ writer_pc = "idle"
    /\ current_channel_key' = channel_key
    /\ writer_pc' = "prepare_clear"
    /\ UNCHANGED <<wait_to_run_lock, is_updating_analog_task, trigger_mode,
                   runner_pc, frames>>
    /\ UNCHANGED <<regVars, micVars, extVars>>

PrepareClearFlag ==
    /\ writer_pc = "prepare_clear"
    /\ is_updating_analog_task' = FALSE
    /\ writer_pc' = "prepare_locked"
    /\ UNCHANGED <<wait_to_run_lock, trigger_mode, current_channel_key, runner_pc, frames>>
    /\ UNCHANGED <<regVars, micVars, extVars>>

PrepareCheckLocked ==
    /\ writer_pc = "prepare_locked"
    /\ writer_pc' = IF wait_to_run_lock # "free" THEN "prepare_release" ELSE "idle"
    /\ UNCHANGED <<wait_to_run_lock, is_updating_analog_task, trigger_mode,
                   current_channel_key, runner_pc, frames>>
    /\ UNCHANGED <<regVars, micVars, extVars>>

PrepareRelease ==
    /\ writer_pc = "prepare_release"
    /\ wait_to_run_lock' = "free"
    /\ writer_pc' = IF wait_to_run_lock = "free" THEN "error" ELSE "idle"
    /\ UNCHANGED <<is_updating_analog_task, trigger_mode, current_channel_key,
                   runner_pc, frames>>
    /\ UNCHANGED <<regVars, micVars, extVars>>

\* ---- the writer thread: set_external_trigger (lines 204-206)
SetExternalTrigger(external_trigger) ==
    /\ writer_pc = "idle"
    /\ trigger_mode' = IF external_trigger = "None" THEN "self-trigger" ELSE "external-trigger"
    /\ UNCHANGED <<wait_to_run_lock, is_updating_analog_task, current_channel_key,
                   writer_pc, runner_pc, frames>>
    /\ UNCHANGED <<regVars, micVars, extVars>>

\* ---- the runner thread: run_acquisition (lines 149-155)
RunCheck ==
    /\ runner_pc = "idle"
    /\ frames < MaxFrames
    /\ runner_pc' = IF is_updating_analog_task THEN "run_acquire" ELSE "run_trigger"
    /\ UNCHANGED <<wait_to_run_lock, is_updating_analog_task, trigger_mode,
                   current_channel_key, writer_pc, frames>>
    /\ UNCHANGED <<regVars, micVars, extVars>>

RunAcquire ==
    /\ runner_pc = "run_acquire"
    /\ wait_to_run_lock = "free"
    /\ wait_to_run_lock' = "runner"
    /\ runner_pc' = "run_release"
    /\ UNCHANGED <<is_updating_analog_task, trigger_mode, current_channel_key,
                   writer_pc, frames>>
    /\ UNCHANGED <<regVars, micVars, extVars>>

RunRelease ==
    /\ runner_pc = "run_release"
    /\ wait_to_run_lock' = "free"
    /\ runner_pc' = IF wait_to_run_lock = "free" THEN "error" ELSE "run_trigger"
    /\ UNCHANGED <<is_updating_analog_task, trigger_mode, current_channel_key,
                   writer_pc, frames>>
    /\ UNCHANGED <<regVars, micVars, extVars>>

\* time.sleep(0.01), then every camera generates a frame in self-trigger mode
RunTrigger ==
    /\ runner_pc = "run_trigger"
    /\ frames' = IF trigger_mode = "self-trigger" THEN frames + 1 ELSE frames
    /\ runner_pc' = "idle"
    /\ UNCHANGED <<wait_to_run_lock, is_updating_analog_task, trigger_mode,
                   current_channel_key, writer_pc>>
    /\ UNCHANGED <<regVars, micVars, extVars>>

NextDaq ==
    \/ UpdateCheck \/ UpdateAcquire \/ UpdateSetFlag \/ UpdateClearFlag \/ UpdateRelease
    \/ \E c \in Channels : PrepareSetKey(c)
    \/ PrepareClearFlag \/ PrepareCheckLocked \/ PrepareRelease
    \/ \E t \in {"None", "PFI0"} : SetExternalTrigger(t)
    \/ RunCheck \/ RunAcquire \/ RunRelease \/ RunTrigger

\* C10: run_acquisition generates no frame while a waveform write is in
\* flight (is_updating_analog_task is set).
C10_NoTriggerDuringWrite ==
    [][frames' # frames => ~is_updating_analog_task]_vars

\* the steps a thread takes inside a call it has begun
WriterStep ==
    \/ UpdateSetFlag \/ UpdateClearFlag \/ UpdateRelease
    \/ PrepareClearFlag \/ PrepareCheckLocked \/ PrepareRelease
RunnerStep == RunRelease \/ RunTrigger

\* a run_acquisition that waits on wait_to_run_lock gets the lock
RunnerAcquires == (runner_pc = "run_acquire") ~> (runner_pc = "run_release")

\* C39: a run_acquisition that waits on wait_to_run_lock eventually acquires
\* the lock and returns
C39_WaiterReturns == (runner_pc = "run_acquire") ~> (runner_pc = "idle")

(***************************************************************************)
(* Stage composition: several controllers, each owning some axes           *)
(***************************************************************************)

\* the most controllers a microscope is configured with
MaxControllers == 2

\* the keys of a requested position, and the axis of a key
\* (axis_key[: axis_key.index("_")])
AxisKeys == {"x_abs", "y_abs", "z_abs", "f_abs"}
AxisOf(axis_key) ==
    CASE axis_key = "x_abs" -> "x" [] axis_key = "y_abs" -> "y"
      [] axis_key = "z_abs" -> "z" [] axis_key = "f_abs" -> "f"
\* axis + "_abs"
AbsKey(axis) ==
    CASE axis = "x" -> "x_abs" [] axis = "y" -> "y_abs"
      [] axis = "z" -> "z_abs" [] axis = "f" -> "f_abs"

\* the position an axis is asked to go to: one value per axis, all different
RequestValue(axis_key) ==
    CASE axis_key = "x_abs" -> 10 [] axis_key = "y_abs" -> 20
      [] axis_key = "z_abs" -> 5 [] axis_key = "f_abs" -> 15

\* the requests: any set of axes, each with its value
Requests == {[k \in D |-> RequestValue(k)] : D \in SUBSET AxisKeys}

\* the assignments of axes to controllers: every sequence of up to
\* MaxControllers controllers owning non-empty, pairwise disjoint sets of axes
StageAssignments ==
    {sa \in UNION {[1..n -> (SUBSET Axes) \ {{}}] : n \in 1..MaxControllers} :
        \A i, j \in DOMAIN sa : i # j => sa[i] \cap sa[j] = {}}

\* the axes some controller owns: the keys of self.stages
OwnedAxes(sl) == UNION {sl[s] : s \in DOMAIN sl}
\* self.stages[axis], filled in configuration order (lines 345-346): the
\* last controller configured with the axis
StageOf(sl, axis) ==
    CHOOSE s \in DOMAIN sl :
        axis \in sl[s] /\ \A t \in DOMAIN sl : axis \in sl[t] => t <= s

\* pos_dict restricted to the keys whose axis is among axes (lines 864-868)
Restrict(pos_dict, axes) ==
    [k \in {k \in DOMAIN pos_dict : AxisOf(k) \in axes} |-> pos_dict[k]]

\* a controller's absolute move: when it succeeds the axes stand at the
\* requested positions and it returns True, otherwise it returns False
controller_move(pos, s, op, moved, ok) ==
    [pos |-> IF s \in ok
             THEN [a \in Axes |-> IF AbsKey(a) \in DOMAIN moved
                                  THEN moved[AbsKey(a)] ELSE pos[a]]
             ELSE pos,
     call |-> [stage |-> s, op |-> op, pos |-> moved],
     ret |-> s \in ok]

\* the loop of lines 862-870 from controller s on
RECURSIVE move_each(_, _, _, _, _)
move_each(sl, pos_dict, ok, s, acc) ==
    IF s > Len(sl) THEN acc
    ELSE LET pos == Restrict(pos_dict, sl[s])
         IN  IF DOMAIN pos = {} THEN move_each(sl, pos_dict, ok, s + 1, acc)
             ELSE LET m == controller_move(acc.pos, s, "move_absolute", pos, ok)
                  IN  move_each(sl, pos_dict, ok, s + 1,
                                [pos |-> m.pos, calls |-> Append(acc.calls, m.call),
                                 success |-> m.ret /\ acc.success])

\* a loop that stops at the first controller that fails
RECURSIVE move_each_until_failure(_, _, _, _, _)
move_each_until_failure(sl, pos_dict, ok, s, acc) ==
    IF s > Len(sl) \/ ~acc.success THEN acc
    ELSE LET pos == Restrict(pos_dict, sl[s])
         IN  IF DOMAIN pos = {} THEN move_each_until_failure(sl, pos_dict, ok, s + 1, acc)
             ELSE LET m == controller_move(acc.pos, s, "move_absolute", pos, ok)
                  IN  move_each_until_failure(sl, pos_dict, ok, s + 1,
                                [pos |-> m.pos, calls |-> Append(acc.calls, m.call),
                                 success |-> m.ret /\ acc.success])

\* move_stage that hands every controller the whole request
move_stage_unpartitioned(sl, pos, focus, pos_dict, update_focus, ok) ==
    LET r == move_each([s \in DOMAIN sl |-> Axes], pos_dict, ok, 1,
                       [pos |-> pos, calls |-> <<>>, success |-> TRUE])
    IN  [status |-> "returned", result |-> r.success, calls |-> r.calls,
         pos |-> r.pos, central_focus |-> focus]

\* move_stage with the and of the results short-circuited
move_stage_short_circuit(sl, pos, focus, pos_dict, update_focus, ok) ==
    LET r == move_each_until_failure(sl, pos_dict, ok, 1,
                       [pos |-> pos, calls |-> <<>>, success |-> TRUE])
    IN  [status |-> "returned", result |-> r.success, calls |-> r.calls,
         pos |-> r.pos, central_focus |-> focus]

\* Microscope.move_stage (lines 851-875) on stages_list sl, the axes standing
\* at pos and central_focus being focus; ok are the controllers whose move
\* succeeds
move_stage(sl, pos, focus, pos_dict, update_focus, ok) ==
    IF Cardinality(DOMAIN pos_dict) = 1
    THEN LET axis_key == CHOOSE k \in DOMAIN pos_dict : TRUE
             axis == AxisOf(axis_key)
             f == IF update_focus /\ axis = "f" THEN None ELSE focus
         IN  IF axis \notin OwnedAxes(sl)
             THEN \* self.stages[axis] raises KeyError
                  [status |-> "raised", result |-> FALSE, calls |-> <<>>,
                   pos |-> pos, central_focus |-> f]
             ELSE LET m == controller_move(pos, StageOf(sl, axis), "move_axis_absolute",
                                           pos_dict, ok)
                  IN  [status |-> "returned", result |-> m.ret, calls |-> <<m.call>>,
                       pos |-> m.pos, central_focus |-> f]
    ELSE LET r == move_each(sl, pos_dict, ok, 1,
                            [pos |-> pos, calls |-> <<>>, success |-> TRUE])
         IN  [status |-> "returned", result |-> r.success, calls |-> r.calls,
              pos |-> r.pos,
              central_focus |-> IF update_focus /\ "f_abs" \in DOMAIN pos_dict
                                THEN None ELSE focus]

\* the microscope configurations, self.microscope_name being the second
Microscopes == {"A", "B"}
microscope_name == "B"
\* the stage accepts targets up to MaxPos away from zero
MaxPos == 6

\* the offsets a configuration can have
OffsetPatterns ==
    {[a \in Axes |-> 0],
     [a \in Axes |-> CASE a = "x" -> 3 [] a = "y" -> 0 [] a = "z" -> -2 [] a = "f" -> 1],
     [a \in Axes |-> CASE a = "x" -> -1 [] a = "y" -> 2 [] a = "z" -> 0 [] a = "f" -> -3]}

\* get_stage_position (lines 894-900) with ask_stage_for_position set: every
\* controller reports the axes it owns
fresh_position(sl, pos, ret) ==
    [a \in Axes |-> IF a \in OwnedAxes(sl) THEN pos[a] ELSE ret[a]]

\* the loop of lines 393-405 from controller s on
RECURSIVE offset_each(_, _, _, _, _, _, _)
offset_each(sl, pos_dict, self_offset, former_offset, ok, s, acc) ==
    IF s > Len(sl) THEN acc
    ELSE LET target == [k \in {AbsKey(a) : a \in sl[s]} |->
                           pos_dict[AxisOf(k)] + self_offset[AxisOf(k)]
                           - former_offset[AxisOf(k)]]
             reachable == {t \in ok : \A k \in DOMAIN target :
                                         target[k] \in -MaxPos..MaxPos}
             m == controller_move(acc.pos, s, "move_absolute", target, reachable)
         IN  offset_each(sl, pos_dict, self_offset, former_offset, ok, s + 1,
                         [pos |-> m.pos, calls |-> Append(acc.calls, m.call)])

\* move_stage_offset that forgets the former configuration's offsets
move_stage_offset_no_former(sl, pos, ret, offsets, former_microscope, ok) ==
    LET pos_dict == fresh_position(sl, pos, ret)
        r == offset_each(sl, pos_dict, offsets[microscope_name], [a \in Axes |-> 0],
                         ok, 1, [pos |-> pos, calls |-> <<>>])
    IN  [calls |-> r.calls, pos |-> r.pos, ret_pos_dict |-> pos_dict]

\* Microscope.move_stage_offset (lines 373-406); former_microscope "" is None
move_stage_offset(sl, pos, ret, offsets, former_microscope, ok) ==
    LET former_offset == IF former_microscope # "" THEN offsets[former_microscope]
                         ELSE [a \in Axes |-> 0]
        pos_dict == fresh_position(sl, pos, ret)
        r == offset_each(sl, pos_dict, offsets[microscope_name], former_offset,
                         ok, 1, [pos |-> pos, calls |-> <<>>])
    IN  [calls |-> r.calls, pos |-> r.pos, ret_pos_dict |-> pos_dict]

NoMove == [op |-> "none", pos_dict |-> <<>>, former |-> "", ok |-> {},
           read |-> [a \in Axes |-> 0],
           status |-> "returned", result |-> TRUE, calls |-> <<>>]

\* the configuration the orchestrator's operations are modelled with
StageIdle ==
    /\ stage_axes = stages_list
    /\ stage_offsets = [m \in Microscopes |-> [a \in Axes |-> 0]]
    /\ last_move = NoMove
    /\ stage_limits = TRUE

StageInit ==
    /\ stage_axes \in StageAssignments
    /\ stage_offsets = [m \in Microscopes |-> [a \in Axes |-> 0]]
    /\ last_move = NoMove
    /\ stage_limits = TRUE

\* the axes lists of two configured stage devices, as the configuration
\* file gives them: nothing in the constructor compares them
ConfiguredAxes == {{"x", "y"}, {"y", "z"}, {"z", "f"}, {"f"}, {"x", "f"}}

\* Microscope.__init__ (lines 305-349) on two stage devices
ConfigInit ==
    /\ stage_axes \in {<<a, b>> : a, b \in ConfiguredAxes}
    /\ stage_offsets = [m \in Microscopes |-> [a \in Axes |-> 0]]
    /\ last_move = NoMove
    /\ stage_limits = TRUE

OffsetInit ==
    /\ stage_axes \in {stages_list, <<{"x", "y", "z"}>>, <<{"f"}, {"x"}>>}
    /\ stage_offsets \in [Microscopes -> OffsetPatterns]
    /\ last_move = NoMove
    /\ stage_limits = TRUE

MoveStage(pos_dict, update_focus, ok) ==
    \E r \in {move_stage(stage_axes, stage_pos, central_focus, pos_dict, update_focus, ok)} :
        /\ ask_stage_for_position' = TRUE
        /\ central_focus' = r.central_focus
        /\ stage_pos' = r.pos
        /\ last_move' = [op |-> "move_stage", pos_dict |-> pos_dict, former |-> "",
                         ok |-> ok, read |-> NoMove.read, status |-> r.status,
                         result |-> r.result, calls |-> r.calls]
        /\ UNCHANGED <<channels, current_channel, available_channels,
                       current_laser_index, ret_pos_dict, laser_on, shutter_open,
                       camera_is_acquiring, device_calls, outcome, faults, ring>>
        /\ UNCHANGED <<stage_axes, stage_offsets, stage_limits, othersOfStg>>

MoveStageOffset(former_microscope, ok) ==
    \E r \in {move_stage_offset(stage_axes, stage_pos, ret_pos_dict, stage_offsets,
                                former_microscope, ok)} :
        /\ ask_stage_for_position' = TRUE
        /\ ret_pos_dict' = r.ret_pos_dict
        /\ stage_pos' = r.pos
        /\ last_move' = [op |-> "move_stage_offset", pos_dict |-> <<>>,
                         former |-> former_microscope, ok |-> ok, read |-> r.ret_pos_dict,
                         status |-> "returned", result |-> TRUE, calls |-> r.calls]
        /\ UNCHANGED <<channels, current_channel, available_channels, central_focus,
                       current_laser_index, laser_on, shutter_open,
                       camera_is_acquiring, device_calls, outcome, faults, ring>>
        /\ UNCHANGED <<stage_axes, stage_offsets, stage_limits, othersOfStg>>

NextStage ==
    \E pos_dict \in Requests :
        \* update_focus is read for a request that names the focus axis, and a
        \* controller's answer when the controller is called
        \E update_focus \in IF "f_abs" \in DOMAIN pos_dict THEN BOOLEAN ELSE {TRUE},
           ok \in SUBSET {s \in DOMAIN stage_axes :
                             DOMAIN Restrict(pos_dict, stage_axes[s]) # {}} :
            MoveStage(pos_dict, update_focus, ok)

NextOffset ==
    \E former \in Microscopes \cup {""}, ok \in SUBSET DOMAIN stage_axes :
        MoveStageOffset(former, ok)

\* the calls of the last stage operation that went to controller s
CallsTo(s) == {i \in 1..Len(last_move.calls) : last_move.calls[i].stage = s}

\* C11: move_stage issues one move call to each controller that owns a
\* requested axis, carrying the requested axes that controller owns with
\* their requested values, and no move call to any other controller.
C11_AxisPartition ==
    last_move.op = "move_stage" /\ last_move.status = "returned"
    => /\ \A i \in 1..Len(last_move.calls) : last_move.calls[i].stage \in DOMAIN stage_axes
       /\ \A s \in DOMAIN stage_axes :
             LET want == Restrict(last_move.pos_dict, stage_axes[s])
             IN  IF DOMAIN want = {} THEN CallsTo(s) = {}
                 ELSE /\ Cardinality(CallsTo(s)) = 1
                      /\ \A i \in CallsTo(s) : last_move.calls[i].pos = want

\* controllers {x,y} and {z,f}, request {x_abs: 10, z_abs: 5}: {x_abs: 10}
\* went to the first and {z_abs: 5} to the second
C11_Witness ==
    /\ last_move.op = "move_stage"
    /\ stage_axes = <<{"x", "y"}, {"z", "f"}>>
    /\ DOMAIN last_move.pos_dict = {"x_abs", "z_abs"}
    /\ last_move.calls =
          <<[stage |-> 1, op |-> "move_absolute", pos |-> [k \in {"x_abs"} |-> 10]],
            [stage |-> 2, op |-> "move_absolute", pos |-> [k \in {"z_abs"} |-> 5]]>>

\* the controllers whose call in the last stage operation carried the key
ReceivedBy(axis_key) ==
    {last_move.calls[i].stage :
        i \in {j \in 1..Len(last_move.calls) : axis_key \in DOMAIN last_move.calls[j].pos}}

\* C36: every configured axis has one owner: in a move of several axes the
\* controllers that receive an axis are exactly the one controller a
\* single-axis move of that axis goes to
C36_SingleOwner ==
    (/\ last_move.op = "move_stage" /\ last_move.status = "returned"
     /\ Cardinality(DOMAIN last_move.pos_dict) > 1)
    => \A k \in DOMAIN last_move.pos_dict :
          AxisOf(k) \in OwnedAxes(stage_axes)
              => ReceivedBy(k) = {StageOf(stage_axes, AxisOf(k))}

\* the controllers that own a requested axis
Involved == {s \in DOMAIN stage_axes : DOMAIN Restrict(last_move.pos_dict, stage_axes[s]) # {}}

\* C12: move_stage returns true exactly when every controller move call it
\* issued returned true, and a controller's failure does not keep the other
\* involved controllers from being called.
C12_AndOfResults ==
    last_move.op = "move_stage" /\ last_move.status = "returned"
    => /\ last_move.result = (\A i \in 1..Len(last_move.calls) :
                                  last_move.calls[i].stage \in last_move.ok)
       /\ \A s \in Involved : CallsTo(s) # {}

\* the first of two involved controllers failed, the second was still
\* called and succeeded, and move_stage returned false
C12_Witness ==
    /\ last_move.op = "move_stage"
    /\ Len(last_move.calls) = 2
    /\ last_move.calls[1].stage \notin last_move.ok
    /\ last_move.calls[2].stage \in last_move.ok
    /\ last_move.result = FALSE
    /\ stage_pos["z"] = 5

\* C13: move_stage_offset commands every axis of every controller to the
\* position read from the controllers plus this configuration's offset
\* minus the former configuration's offset (0 without a former one).
C13_OffsetTargets ==
    last_move.op = "move_stage_offset"
    => \A s \in DOMAIN stage_axes :
          /\ Cardinality(CallsTo(s)) = 1
          /\ \A i \in CallsTo(s) :
                last_move.calls[i].pos =
                   [k \in {AbsKey(a) : a \in stage_axes[s]} |->
                       last_move.read[AxisOf(k)]
                       + stage_offsets[microscope_name][AxisOf(k)]
                       - (IF last_move.former = "" THEN 0
                          ELSE stage_offsets[last_move.former][AxisOf(k)])]

\* a switch from A to B, both with offsets, from a position away from zero
C13_Witness ==
    /\ last_move.op = "move_stage_offset"
    /\ last_move.former = "A"
    /\ stage_axes = stages_list
    /\ stage_offsets["A"]["x"] = 3
    /\ stage_offsets["B"]["x"] = -1
    /\ last_move.read["x"] = -1
    /\ Len(last_move.calls) = 2
    /\ last_move.calls[1].pos["x_abs"] = -5
    /\ stage_pos["x"] = -5

(***************************************************************************)
(* Timing plan: exposure and sweep time of every selected channel          *)
(* Times are in units of 10 microseconds (a millisecond is Ms units).      *)
(***************************************************************************)

Ms == 100

\* the hardware delays of a microscope, in ms: the camera's delay and settle
\* duration, the remote focus's ramp-falling and settle ("duty cycle wait")
HardwareDelays ==
    {[delay |-> 1, settle |-> 3, ramp_falling |-> 4, duty_wait |-> 1],
     [delay |-> 0, settle |-> 0, ramp_falling |-> 0, duty_wait |-> 0],
     [delay |-> 2, settle |-> 0, ramp_falling |-> 0, duty_wait |-> 1],
     [delay |-> 1, settle |-> 5, ramp_falling |-> 1, duty_wait |-> 1]}
\* camera.calculate_readout_time(), in ms
ReadoutTimes == {0, 2}
\* a channel's camera_exposure_time, in ms
ExposureValues == {5, 10}
PercentSmoothing == {0, 10, 50}
SensorModes == {"Normal", "Light-Sheet"}
ReadoutDirections == {"Top-to-Bottom", "Bidirectional"}

TimingConfigs ==
    [hardware : HardwareDelays, camera_readout : ReadoutTimes,
     sensor_mode : SensorModes, readout_direction : ReadoutDirections,
     percent_smoothing : PercentSmoothing,
     camera_exposure_time : [Channels -> ExposureValues]]

\* the exposure time the camera achieves in Light-Sheet mode for a requested
\* one: a whole number of groups of four lines
calculate_light_sheet_exposure_time(exposure_time) == (exposure_time \div 4) * 4

Max(a, b) == IF a >= b THEN a ELSE b

\* lines 612-650 and 653-656: the values the sweep of channel c is computed from
timing_values(cfg, c) ==
    LET requested == cfg.camera_exposure_time[c]
        updated == IF cfg.sensor_mode = "Light-Sheet"
                   THEN calculate_light_sheet_exposure_time(requested)
                   ELSE requested
    IN  [camera_delay |-> cfg.hardware.delay * Ms,
         camera_settle_duration |-> cfg.hardware.settle * Ms,
         duty_cycle_wait_duration |-> cfg.hardware.duty_wait * Ms,
         remote_focus_ramp_falling |->
            IF cfg.sensor_mode # "Normal"
               /\ cfg.readout_direction \in {"Bidirectional", "Rev. Bidirectional"}
            THEN 0 ELSE cfg.hardware.ramp_falling * Ms,
         readout_time |-> IF cfg.sensor_mode = "Normal"
                          THEN cfg.camera_readout * Ms ELSE 0,
         requested |-> requested,
         updated |-> updated,
         exposure_time |-> updated * Ms,
         ps |-> cfg.percent_smoothing]

\* lines 685-695
sweep_of(v) ==
    v.exposure_time + v.readout_time + v.camera_delay
    + Max(v.remote_focus_ramp_falling + v.duty_cycle_wait_duration,
          Max(v.camera_settle_duration, v.camera_delay))
    - v.camera_delay

\* a sweep that leaves the camera delay in
channel_times_delay_kept(cfg, c) ==
    LET v == timing_values(cfg, c)
        sweep_time == sweep_of(v) + v.camera_delay
    IN  [camera_exposure_time |-> v.updated,
         exposure_time |-> v.exposure_time + v.readout_time,
         sweep_time |-> IF v.ps > 0 THEN ((100 + v.ps) * sweep_time) \div 100
                        ELSE sweep_time]

\* a sweep without the readout time
channel_times_no_readout(cfg, c) ==
    LET v == timing_values(cfg, c)
        sweep_time == sweep_of(v) - v.readout_time
    IN  [camera_exposure_time |-> v.updated,
         exposure_time |-> v.exposure_time + v.readout_time,
         sweep_time |-> IF v.ps > 0 THEN ((100 + v.ps) * sweep_time) \div 100
                        ELSE sweep_time]

\* a sweep with the smoothing left out
channel_times_unsmoothed(cfg, c) ==
    LET v == timing_values(cfg, c)
    IN  [camera_exposure_time |-> v.updated,
         exposure_time |-> v.exposure_time + v.readout_time,
         sweep_time |-> sweep_of(v)]

\* lines 657-705 for one selected channel: the exposure time the channel is
\* left with (ms), and its entries of exposure_times and sweep_times
channel_times(cfg, c) ==
    LET v == timing_values(cfg, c)
        sweep_time == sweep_of(v)
    IN  [camera_exposure_time |-> v.updated,
         exposure_time |-> v.exposure_time + v.readout_time,
         sweep_time |-> IF v.ps > 0 THEN ((100 + v.ps) * sweep_time) \div 100
                        ELSE sweep_time]

Selected(chs) == {c \in Channels : chs[c].is_selected}

\* the corrections of the exposure time reported on output_event_queue
\* (lines 677-682), from channel c on
RECURSIVE exposure_events(_, _, _)
exposure_events(cfg, chs, c) ==
    IF c > NumChannels THEN <<>>
    ELSE (IF c \in Selected(chs) /\ cfg.sensor_mode = "Light-Sheet"
             /\ timing_values(cfg, c).updated # timing_values(cfg, c).requested
          THEN <<[channel |-> c, exposure_time |-> timing_values(cfg, c).updated]>>
          ELSE <<>>) \o exposure_events(cfg, chs, c + 1)

\* Microscope.calculate_exposure_sweep_times (lines 587-709)
calculate_exposure_sweep_times(cfg, chs) ==
    LET t == [c \in Selected(chs) |-> channel_times(cfg, c)]
    IN  [exposure_times |-> [c \in Selected(chs) |-> t[c].exposure_time],
         sweep_times |-> [c \in Selected(chs) |-> t[c].sweep_time],
         cfg |-> [cfg EXCEPT !.camera_exposure_time =
                     [c \in Channels |-> IF c \in Selected(chs)
                                         THEN t[c].camera_exposure_time ELSE @[c]]],
         events |-> exposure_events(cfg, chs, 1)]

NoPlan == [computed |-> FALSE, exposure_times |-> <<>>, sweep_times |-> <<>>,
           cfg |-> <<>>, selected |-> {}]
NoTiming == [op |-> "none", status |-> "returned", exposure_times |-> <<>>,
             sweep_times |-> <<>>, events |-> <<>>, resmoothed |-> FALSE]

\* the timing inputs the orchestrator's operations are modelled with
TimingIdle ==
    /\ timing_cfg = [hardware |-> [delay |-> 1, settle |-> 3, ramp_falling |-> 4,
                                   duty_wait |-> 1],
                     camera_readout |-> 2, sensor_mode |-> "Normal",
                     readout_direction |-> "Top-to-Bottom", percent_smoothing |-> 0,
                     camera_exposure_time |-> [c \in Channels |-> 10]]
    /\ timing_plan = NoPlan
    /\ last_timing = NoTiming

\* any hardware, sensor mode and exposure times; no smoothing to begin with
TimingInit ==
    /\ timing_cfg \in TimingConfigs
    /\ timing_cfg.percent_smoothing = 0
    /\ timing_plan = NoPlan
    /\ last_timing = NoTiming

\* calculate_exposure_sweep_times: the plan is stored on the microscope
\* (lines 706-707) and returned
CalculateExposureSweepTimes ==
    \E r \in {calculate_exposure_sweep_times(timing_cfg, channels)} :
        /\ timing_cfg' = r.cfg
        /\ timing_plan' = [computed |-> TRUE, exposure_times |-> r.exposure_times,
                           sweep_times |-> r.sweep_times, cfg |-> r.cfg,
                           selected |-> Selected(channels)]
        /\ last_timing' = [op |-> "calculate", status |-> "returned",
                           exposure_times |-> r.exposure_times,
                           sweep_times |-> r.sweep_times, events |-> r.events,
                           resmoothed |-> /\ timing_plan.computed
                                          /\ timing_plan.cfg.percent_smoothing = 0
                                          /\ r.cfg.percent_smoothing > 0]
        /\ UNCHANGED <<micVars, othersOfTim>>

\* get_exposure_sweep_times (line 722): the stored plan, as it is; the
\* attributes do not exist before the first calculation
GetExposureSweepTimes ==
    /\ last_timing' = IF timing_plan.computed
                      THEN [op |-> "get", status |-> "returned",
                            exposure_times |-> timing_plan.exposure_times,
                            sweep_times |-> timing_plan.sweep_times, events |-> <<>>,
                            resmoothed |-> FALSE]
                      ELSE [NoTiming EXCEPT !.op = "get", !.status = "raised"]
    /\ UNCHANGED <<timing_cfg, timing_plan, micVars, othersOfTim>>

\* the waveform constants' percent_smoothing is changed
SetPercentSmoothing(ps) ==
    /\ timing_cfg.percent_smoothing # ps
    /\ timing_cfg' = [timing_cfg EXCEPT !.percent_smoothing = ps]
    /\ last_timing' = [NoTiming EXCEPT !.op = "set"]
    /\ UNCHANGED <<timing_plan, micVars, othersOfTim>>

\* the experiment's channels are selected anew
SelectChannels(sel) ==
    /\ Selected(channels) # sel
    /\ channels' = [c \in Channels |-> [channels[c] EXCEPT !.is_selected = c \in sel]]
    /\ last_timing' = [NoTiming EXCEPT !.op = "set"]
    /\ UNCHANGED <<current_channel, available_channels, central_focus,
                   current_laser_index, ask_stage_for_position, ret_pos_dict,
                   laser_on, shutter_open, camera_is_acquiring,
                   stage_pos, device_calls, outcome, faults, ring>>
    /\ UNCHANGED <<timing_cfg, timing_plan, othersOfTim>>

\* a channel's camera_exposure_time is changed
SetExposureTime(c, e) ==
    /\ timing_cfg.camera_exposure_time[c] # e
    /\ timing_cfg' = [timing_cfg EXCEPT !.camera_exposure_time[c] = e]
    /\ last_timing' = [NoTiming EXCEPT !.op = "set"]
    /\ UNCHANGED <<timing_plan, micVars, othersOfTim>>

\* the camera's sensor mode is changed
SetSensorMode(mode) ==
    /\ timing_cfg.sensor_mode # mode
    /\ timing_cfg' = [timing_cfg EXCEPT !.sensor_mode = mode]
    /\ last_timing' = [NoTiming EXCEPT !.op = "set"]
    /\ UNCHANGED <<timing_plan, micVars, othersOfTim>>

NextTiming ==
    \/ CalculateExposureSweepTimes
    \/ \E ps \in PercentSmoothing : SetPercentSmoothing(ps)

NextPlan ==
    \/ CalculateExposureSweepTimes
    \/ GetExposureSweepTimes
    \/ \E sel \in SUBSET Channels : SelectChannels(sel)
    \/ \E c \in Channels, e \in ExposureValues : SetExposureTime(c, e)
    \/ \E mode \in SensorModes : SetSensorMode(mode)

(***************************************************************************)
(* The timing plan's claims                                                *)
(***************************************************************************)
Max3(a, b, c) == Max(a, Max(b, c))
Smoothed(ps, t) == IF ps > 0 THEN (t * (100 + ps)) \div 100 ELSE t
\* the inputs of the stored plan, as the configuration holds them after the
\* calculation
PlanExposure(c) == timing_plan.cfg.camera_exposure_time[c] * Ms
PlanDelay == timing_plan.cfg.hardware.delay * Ms
PlanSettle == timing_plan.cfg.hardware.settle * Ms
PlanDutyWait == timing_plan.cfg.hardware.duty_wait * Ms
PlanSmoothing == timing_plan.cfg.percent_smoothing
PlanNormal == timing_plan.cfg.sensor_mode = "Normal"
PlanBidirectional ==
    timing_plan.cfg.readout_direction \in {"Bidirectional", "Rev. Bidirectional"}

\* C14 as stated: every selected channel, and no other, has an entry;
\* sweep_time = exposure + readout + camera_delay + max(ramp_falling +
\* duty_cycle_wait, camera_settle, camera_delay) - camera_delay, times
\* (1 + smoothing/100) when smoothing > 0, and exposure_times[channel] =
\* exposure + readout, with the camera's readout time and the configured
\* ramp_falling in every sensor mode
C14_SweepFormulaAsStated ==
    timing_plan.computed =>
        /\ DOMAIN timing_plan.sweep_times = timing_plan.selected
        /\ DOMAIN timing_plan.exposure_times = timing_plan.selected
        /\ \A c \in timing_plan.selected :
            LET readout == timing_plan.cfg.camera_readout * Ms
                ramp_falling == timing_plan.cfg.hardware.ramp_falling * Ms
            IN  /\ timing_plan.sweep_times[c] =
                       Smoothed(PlanSmoothing,
                                PlanExposure(c) + readout + PlanDelay
                                + Max3(ramp_falling + PlanDutyWait, PlanSettle,
                                       PlanDelay)
                                - PlanDelay)
                /\ timing_plan.exposure_times[c] = PlanExposure(c) + readout

\* C14 as amended: the same formula, where readout is the camera's readout
\* time in Normal sensor mode and 0 in every other mode, and ramp_falling
\* counts as 0 when the sensor mode is not Normal and the readout direction
\* is bidirectional
C14_SweepFormula ==
    timing_plan.computed =>
        /\ DOMAIN timing_plan.sweep_times = timing_plan.selected
        /\ DOMAIN timing_plan.exposure_times = timing_plan.selected
        /\ \A c \in timing_plan.selected :
            LET readout == IF PlanNormal THEN timing_plan.cfg.camera_readout * Ms
                           ELSE 0
                ramp_falling == IF ~PlanNormal /\ PlanBidirectional THEN 0
                                ELSE timing_plan.cfg.hardware.ramp_falling * Ms
            IN  /\ timing_plan.sweep_times[c] =
                       Smoothed(PlanSmoothing,
                                PlanExposure(c) + readout + PlanDelay
                                + Max3(ramp_falling + PlanDutyWait, PlanSettle,
                                       PlanDelay)
                                - PlanDelay)
                /\ timing_plan.exposure_times[c] = PlanExposure(c) + readout
\* the concrete scenario: readout 2, delay 1, settle 3, ramp falling 4, duty
\* wait 1, exposure 10, no smoothing: a sweep of 17 ms; another channel is
\* not selected and has no entry
C14_Witness ==
    /\ timing_plan.computed
    /\ timing_plan.cfg.hardware = [delay |-> 1, settle |-> 3, ramp_falling |-> 4,
                                   duty_wait |-> 1]
    /\ timing_plan.cfg.camera_readout = 2
    /\ PlanNormal
    /\ PlanSmoothing = 0
    /\ timing_plan.selected = {1}
    /\ timing_plan.cfg.camera_exposure_time[1] = 10
    /\ timing_plan.sweep_times[1] = 17 * Ms
    /\ timing_plan.exposure_times[1] = 12 * Ms
    /\ 2 \notin DOMAIN timing_plan.sweep_times

\* C15: in a computed plan, every selected channel's sweep time is at least
\* its exposure_times entry (exposure time plus readout time), with or
\* without smoothing
C15_SweepCoversExposure ==
    timing_plan.computed =>
        \A c \in timing_plan.selected :
            /\ timing_plan.exposure_times[c] =
                   PlanExposure(c)
                   + (IF PlanNormal THEN timing_plan.cfg.camera_readout * Ms ELSE 0)
            /\ timing_plan.sweep_times[c] >= timing_plan.exposure_times[c]
\* the boundary: a camera that reads out, no hardware delay, no smoothing,
\* and the sweep is exactly exposure plus readout
C15_Witness ==
    /\ timing_plan.computed
    /\ PlanNormal
    /\ timing_plan.cfg.camera_readout > 0
    /\ \E c \in timing_plan.selected :
          timing_plan.sweep_times[c] = timing_plan.exposure_times[c]
    /\ last_timing.op = "calculate"

\* the stored plan has the inputs of the next one, but for the smoothing
SameButSmoothing(old, new) ==
    /\ old.computed /\ new.computed
    /\ old.selected = new.selected
    /\ [old.cfg EXCEPT !.percent_smoothing = 0]
           = [new.cfg EXCEPT !.percent_smoothing = 0]
Resmoothed ==
    /\ SameButSmoothing(timing_plan, timing_plan')
    /\ timing_plan.cfg.percent_smoothing = 0
    /\ timing_plan'.cfg.percent_smoothing > 0
\* C16: within one plan (one set of hardware delays) a channel with a longer
\* exposure time has no shorter sweep time; and a plan computed with
\* smoothing s > 0 has, for every channel, a strictly longer sweep time than
\* the plan computed from the same inputs with s = 0
C16_Monotone ==
    /\ [](timing_plan.computed =>
            \A c1, c2 \in timing_plan.selected :
                PlanExposure(c1) <= PlanExposure(c2)
                    => timing_plan.sweep_times[c1] <= timing_plan.sweep_times[c2])
    /\ [][Resmoothed =>
            \A c \in timing_plan.selected :
                timing_plan'.sweep_times[c] > timing_plan.sweep_times[c]]_vars
\* two channels of different exposure times in a smoothed plan that replaced
\* an unsmoothed one
C16_Witness ==
    /\ timing_plan.computed
    /\ PlanSmoothing > 0
    /\ \E c1, c2 \in timing_plan.selected :
          /\ PlanExposure(c1) < PlanExposure(c2)
          /\ timing_plan.sweep_times[c1] < timing_plan.sweep_times[c2]
    /\ last_timing.op = "calculate"
    /\ last_timing.resmoothed


\* the plan calculate_exposure_sweep_times yields for the inputs as they are
CurrentPlan == calculate_exposure_sweep_times(timing_cfg, channels)
\* C17: a plan handed to a consumer is the plan of the inputs as they are
\* now: it has an entry for exactly the channels selected now, computed from
\* the exposure times and the sensor mode of now
C17_PlanNeverStale ==
    (last_timing.op = "get" /\ last_timing.status = "returned") =>
        /\ last_timing.sweep_times = CurrentPlan.sweep_times
        /\ last_timing.exposure_times = CurrentPlan.exposure_times

(***************************************************************************)
(* The coordinator (Controller): the capture loop and the commands it      *)
(* sends to the worker (the model in its subprocess)                       *)
(***************************************************************************)
\* slots of the data buffer
NumberOfFrames == 2
\* messages the worker puts on show_img_pipe in one run
MaxMessages == 4
MaxAcquisitions == 2
\* commands the coordinator issues in one run
MaxCommands == 3
\* refused attempts of sloppy_stop that are counted
MaxAttempts == 2

\* what show_img_pipe carries: a slot index (NumberOfFrames is one past the
\* buffer), the "stop" sentinel, or some other object (not an int)
FrameMessage(id) == [kind |-> "int", id |-> id]
StopMessage == [kind |-> "stop", id |-> 0]
OtherMessage == [kind |-> "other", id |-> 0]
Messages == {FrameMessage(id) : id \in 0..NumberOfFrames} \cup {StopMessage, OtherMessage}
ValidSlot(msg) == msg.kind = "int" /\ msg.id < NumberOfFrames

Range(s) == {s[i] : i \in DOMAIN s}

\* a command as the coordinator issues it: its place in the issue order
Command(name, n) == [name |-> name, n |-> n]
QueuedCommands == {"move_stage", "update_setting", "stage_limits", "load_feature"}

NoCapture == [pc |-> "idle", acq |-> 0, sent |-> 0, received |-> <<>>,
              displayed |-> <<>>, buffer_uses |-> <<>>, images_received |-> 0]

\* Controller.__init__ (lines 131-222): no acquisition, nothing issued
CtlIdle ==
    /\ show_img_pipe = <<>>
    /\ stop_acquisition_flag = FALSE
    /\ capture = NoCapture
    /\ sub_mode = "stop"
    /\ model_queue = <<>>
    /\ model_busy = None
    /\ issued = <<>>
    /\ processed = <<>>
    /\ dropped = {}
    /\ stopper = [pc |-> "idle", n |-> 0, attempts |-> 0]

\* one pass of the loop that breaks at the sentinel but goes on reading
capture_iteration_no_break(cap, msg, flag, iss, proc) ==
    IF flag
    THEN [cap |-> [cap EXCEPT !.pc = "done"], took |-> FALSE, flag |-> flag,
          issued |-> iss, processed |-> proc, sub |-> "stop"]
    ELSE IF msg.kind = "stop"
    THEN [cap |-> [cap EXCEPT !.received = Append(@, msg)],
          took |-> TRUE, flag |-> flag, issued |-> iss, processed |-> proc,
          sub |-> "live"]
    ELSE IF ValidSlot(msg)
    THEN [cap |-> [cap EXCEPT !.received = Append(@, msg),
                              !.buffer_uses = Append(@, msg),
                              !.displayed = Append(@, msg.id),
                              !.images_received = @ + 1],
          took |-> TRUE, flag |-> flag, issued |-> iss, processed |-> proc,
          sub |-> "live"]
    ELSE [cap |-> [cap EXCEPT !.received = Append(@, msg),
                              !.buffer_uses = Append(@, msg), !.pc = "raised"],
          took |-> TRUE, flag |-> FALSE,
          issued |-> IF msg.kind = "other"
                     THEN Append(iss, Command("stop", Len(iss) + 1)) ELSE iss,
          processed |-> IF msg.kind = "other"
                        THEN Append(proc, Command("stop", Len(iss) + 1)) ELSE proc,
          sub |-> "live"]

\* one pass of capture_image's loop (lines 774-803) and, when it breaks, the
\* lines after it (805-818). flag is stop_acquisition_flag, msg what recv()
\* returns, iss and proc the commands issued and processed so far.
\*   774-776  the flag set: break
\*   780-781  "stop": break
\*   782-787  not an int: execute("stop_acquire"), which clears the flag and
\*            runs sloppy_stop (the worker is idle here: "stop" gets through)
\*            ... and the loop body goes on
\*   790-795  display_image(image=self.data_buffer[image_id], ...): a value
\*            that is no index of the buffer raises and ends the thread
\*   818      after the loop: set_mode_of_sub("stop")
capture_iteration(cap, msg, flag, iss, proc) ==
    IF flag
    THEN [cap |-> [cap EXCEPT !.pc = "done"], took |-> FALSE, flag |-> flag,
          issued |-> iss, processed |-> proc, sub |-> "stop"]
    ELSE IF msg.kind = "stop"
    THEN [cap |-> [cap EXCEPT !.received = Append(@, msg), !.pc = "done"],
          took |-> TRUE, flag |-> flag, issued |-> iss, processed |-> proc,
          sub |-> "stop"]
    ELSE IF ValidSlot(msg)
    THEN [cap |-> [cap EXCEPT !.received = Append(@, msg),
                              !.buffer_uses = Append(@, msg),
                              !.displayed = Append(@, msg.id),
                              !.images_received = @ + 1],
          took |-> TRUE, flag |-> flag, issued |-> iss, processed |-> proc,
          sub |-> "live"]
    ELSE [cap |-> [cap EXCEPT !.received = Append(@, msg),
                              !.buffer_uses = Append(@, msg), !.pc = "raised"],
          took |-> TRUE, flag |-> FALSE,
          issued |-> IF msg.kind = "other"
                     THEN Append(iss, Command("stop", Len(iss) + 1)) ELSE iss,
          processed |-> IF msg.kind = "other"
                        THEN Append(proc, Command("stop", Len(iss) + 1)) ELSE proc,
          sub |-> "live"]

\* execute("acquire") (lines 638-675) and the start of capture_image on the
\* "camera" thread (lines 746-771): model.run_command(command) starts the
\* acquisition ("started"), or raises and the sub-controllers are stopped:
\* the worker failed ("failed"), or the model is in use by another thread and
\* the call is refused ("refused")
StartCapture(outcome_) ==
    /\ capture.pc \in {"idle", "done", "raised", "failed"}
    /\ capture.acq < MaxAcquisitions
    /\ Len(issued) < MaxCommands
    /\ outcome_ \in (IF model_busy = None THEN {"started", "failed"} ELSE {"refused"})
    /\ stop_acquisition_flag' = FALSE
    /\ capture' = [NoCapture EXCEPT !.acq = capture.acq + 1,
                                    !.sent = capture.sent,
                                    !.pc = IF outcome_ = "started" THEN "loop"
                                           ELSE "failed"]
    /\ sub_mode' = IF outcome_ = "started" THEN "live" ELSE "stop"
    /\ issued' = Append(issued, Command("acquire", Len(issued) + 1))
    /\ processed' = IF outcome_ = "refused" THEN processed
                    ELSE Append(processed, Command("acquire", Len(issued) + 1))
    /\ dropped' = IF outcome_ = "refused"
                  THEN dropped \cup {Command("acquire", Len(issued) + 1)}
                  ELSE dropped
    /\ UNCHANGED <<show_img_pipe, model_queue, model_busy, stopper>>
    /\ UNCHANGED <<othersOfCtl>>

\* the worker puts a message on show_img_pipe
ModelSend(msg) ==
    /\ capture.pc \in {"loop", "done", "raised"}
    /\ capture.sent < MaxMessages
    /\ show_img_pipe' = Append(show_img_pipe, msg)
    /\ capture' = [capture EXCEPT !.sent = @ + 1]
    /\ UNCHANGED <<stop_acquisition_flag, sub_mode, model_queue, model_busy,
                   issued, processed, dropped, stopper>>
    /\ UNCHANGED <<othersOfCtl>>

\* the capture loop takes its next message (recv blocks on an empty pipe)
CaptureIteration ==
    /\ capture.pc = "loop"
    /\ stop_acquisition_flag \/ show_img_pipe # <<>>
    /\ \E r \in {capture_iteration(capture,
                                   IF show_img_pipe # <<>> THEN Head(show_img_pipe)
                                   ELSE StopMessage,
                                   stop_acquisition_flag, issued, processed)} :
          /\ capture' = r.cap
          /\ show_img_pipe' = IF r.took THEN Tail(show_img_pipe) ELSE show_img_pipe
          /\ stop_acquisition_flag' = r.flag
          /\ issued' = r.issued
          /\ processed' = r.processed
          /\ sub_mode' = r.sub
    /\ UNCHANGED <<model_queue, model_busy, dropped, stopper>>
    /\ UNCHANGED <<othersOfCtl>>

NextCapture ==
    \/ \E o \in {"started", "failed", "refused"} : StartCapture(o)
    \/ \E msg \in Messages : ModelSend(msg)
    \/ CaptureIteration

\* execute("stage", ...), ("update_setting", ...), ("stage_limits", ...),
\* ("load_feature", ...): threads_pool.createThread("model", ...) puts the
\* call behind the calls already waiting for the "model" resource
IssueQueued(name) ==
    /\ Len(issued) < MaxCommands
    /\ issued' = Append(issued, Command(name, Len(issued) + 1))
    /\ model_queue' = Append(model_queue, Command(name, Len(issued) + 1))
    /\ UNCHANGED <<show_img_pipe, stop_acquisition_flag, capture, sub_mode,
                   model_busy, processed, dropped, stopper>>
    /\ UNCHANGED <<othersOfCtl>>

\* the thread pool runs the next call of the "model" resource: the worker
\* takes the command up
WorkerStart ==
    /\ model_queue # <<>>
    /\ model_busy = None
    /\ model_busy' = Some(Head(model_queue))
    /\ model_queue' = Tail(model_queue)
    /\ processed' = Append(processed, Head(model_queue))
    /\ UNCHANGED <<show_img_pipe, stop_acquisition_flag, capture, sub_mode,
                   issued, dropped, stopper>>
    /\ UNCHANGED <<othersOfCtl>>

\* the worker has finished the command
WorkerFinish ==
    /\ model_busy # None
    /\ model_busy' = None
    /\ UNCHANGED <<show_img_pipe, stop_acquisition_flag, capture, sub_mode,
                   model_queue, issued, processed, dropped, stopper>>
    /\ UNCHANGED <<othersOfCtl>>

\* execute("stop_acquire") (lines 677-682): the flag is cleared and
\* sloppy_stop starts
IssueStop ==
    /\ stopper.pc = "idle"
    /\ Len(issued) < MaxCommands
    /\ stop_acquisition_flag' = FALSE
    /\ issued' = Append(issued, Command("stop", Len(issued) + 1))
    /\ stopper' = [pc |-> "retrying", n |-> Len(issued) + 1, attempts |-> 0]
    /\ UNCHANGED <<show_img_pipe, capture, sub_mode, model_queue, model_busy,
                   processed, dropped>>
    /\ UNCHANGED <<othersOfCtl>>

\* a stop that is given up at the first refusal
sloppy_stop_gives_up(st, refused) ==
    [st EXCEPT !.pc = "idle", !.attempts = IF refused THEN @ + 1 ELSE @]

\* one pass of sloppy_stop's loop (lines 727-734): model.run_command("stop")
\* raises RuntimeError (refused) and e stays RuntimeError, so the loop goes
\* round again; or it is accepted, e is None and the loop ends
sloppy_stop(st, refused) ==
    IF refused THEN [st EXCEPT !.attempts = @ + 1] ELSE [st EXCEPT !.pc = "idle"]

\* sloppy_stop while another thread is in the model: the call is refused
StopRefused ==
    /\ stopper.pc = "retrying"
    /\ model_busy # None
    /\ stopper.attempts < MaxAttempts
    /\ stopper' = sloppy_stop(stopper, TRUE)
    /\ UNCHANGED <<show_img_pipe, stop_acquisition_flag, capture, sub_mode,
                   model_queue, model_busy, issued, processed, dropped>>
    /\ UNCHANGED <<othersOfCtl>>

\* sloppy_stop: the model is free and the stop is processed, whatever waits
\* for the "model" resource
StopGetsThrough ==
    /\ stopper.pc = "retrying"
    /\ model_busy = None
    /\ processed' = Append(processed, Command("stop", stopper.n))
    /\ stopper' = sloppy_stop(stopper, FALSE)
    /\ UNCHANGED <<show_img_pipe, stop_acquisition_flag, capture, sub_mode,
                   model_queue, model_busy, issued, dropped>>
    /\ UNCHANGED <<othersOfCtl>>

NextCommands ==
    \/ \E name \in QueuedCommands : IssueQueued(name)
    \/ WorkerStart
    \/ WorkerFinish
    \/ IssueStop
    \/ StopRefused
    \/ StopGetsThrough
    \/ \E o \in {"started", "failed", "refused"} : StartCapture(o)

(***************************************************************************)
(* The coordinator's claims                                                *)
(***************************************************************************)
\* C18: a received value that is neither "stop" nor a valid slot index is
\* never used to index the data buffer (and so never displayed): the buffer
\* is only ever indexed with valid slot indices
C18_BadValueNeverIndexes ==
    \A i \in DOMAIN capture.buffer_uses : ValidSlot(capture.buffer_uses[i])

\* the slot indices of the frames among the messages s, in order
RECURSIVE FrameIds(_)
FrameIds(s) ==
    IF s = <<>> THEN <<>>
    ELSE (IF ValidSlot(Head(s)) THEN <<Head(s).id>> ELSE <<>>) \o FrameIds(Tail(s))
StopReceived == StopMessage \in Range(capture.received)
\* C19: the frames displayed are the slot indices received, in the order
\* they were received; once "stop" has been received it is the last message
\* read in that acquisition, the loop has ended and the sub-controllers are
\* in stop mode, and nothing more is read or displayed in that acquisition
C19_DisplayInReceiveOrder ==
    /\ [](/\ capture.displayed = FrameIds(capture.received)
          /\ StopReceived =>
                /\ capture.received[Len(capture.received)] = StopMessage
                /\ capture.pc = "done"
                /\ sub_mode = "stop")
    /\ [][(StopReceived /\ capture'.acq = capture.acq) =>
              /\ capture'.received = capture.received
              /\ capture'.displayed = capture.displayed
              /\ capture'.pc = "done"
              /\ sub_mode' = "stop"]_vars
\* two frames displayed in the order received (not the order of the slots),
\* "stop" received, and frames still in the pipe behind it
C19_Witness ==
    /\ capture.received = <<FrameMessage(1), FrameMessage(0), StopMessage>>
    /\ capture.displayed = <<1, 0>>
    /\ capture.pc = "done"
    /\ sub_mode = "stop"
    /\ show_img_pipe # <<>>
    /\ Head(show_img_pipe).kind = "int"

\* the stop the thread in sloppy_stop is sending, or has sent last
StopOf(st) == Command("stop", st.n)
Occurrences(s, x) == Cardinality({i \in DOMAIN s : s[i] = x})
\* C21: a stop issued while the worker is mid-command is not dropped: after
\* a refused attempt sloppy_stop is still trying; it returns only when the
\* stop has been accepted; no stop is delivered twice; and, the worker
\* becoming free, every stop issued is delivered
C21_StopNeverDropped ==
    /\ [](\A n \in 1..(MaxCommands + 1) :
              Occurrences(processed, Command("stop", n)) <= 1)
    /\ [][(stopper.pc = "retrying" /\ model_busy # None /\ stopper' # stopper)
              => stopper'.pc = "retrying"]_vars
    /\ [][(stopper.pc = "retrying" /\ stopper'.pc = "idle")
              => Occurrences(processed', StopOf(stopper)) = 1]_vars
    /\ \A n \in 1..(MaxCommands + 1) :
          (stopper.pc = "retrying" /\ stopper.n = n)
              ~> (stopper.pc = "idle" /\ Occurrences(processed, Command("stop", n)) = 1)
\* a stop that was refused, tried again and delivered once, behind the
\* command the worker was processing
C21_Witness ==
    /\ stopper.pc = "idle"
    /\ stopper.attempts > 0
    /\ Occurrences(processed, StopOf(stopper)) = 1
    /\ model_queue # <<>>

\* the place of a command in a sequence of commands
PlaceIn(s, cmd) == CHOOSE i \in DOMAIN s : s[i] = cmd
\* C20: the worker takes the commands up in the order the coordinator
\* issued them, and none is dropped
C20_ProcessedInIssueOrder ==
    /\ \A i, j \in DOMAIN processed :
          i < j => PlaceIn(issued, processed[i]) < PlaceIn(issued, processed[j])
    /\ dropped = {}

(***************************************************************************)
(* The data buffer: Microscope.update_data_buffer and the image series     *)
(***************************************************************************)
\* buffers allocated in one run
MaxBuffers == 3
FrameCounts == {1, 2}

\* Microscope.__init__: the first buffer, no image series
BufIdle ==
    /\ data_buffer = 1
    /\ number_of_frames = 1
    /\ camera_buffer = None

\* a replacement that leaves the image series of the old buffer running
update_data_buffer_no_close(mic, new_buffer, n_frames, fail) ==
    [is_acquiring |-> mic.is_acquiring, camera_buffer |-> mic.camera_buffer,
     data_buffer |-> new_buffer, number_of_frames |-> n_frames,
     raised |-> FALSE, closed |-> FALSE]

\* Microscope.update_data_buffer (lines 355-371); fail: close_image_series
\* raises
update_data_buffer(mic, new_buffer, n_frames, fail) ==
    IF mic.is_acquiring /\ fail
    THEN [is_acquiring |-> mic.is_acquiring, camera_buffer |-> mic.camera_buffer,
          data_buffer |-> mic.data_buffer, number_of_frames |-> mic.number_of_frames,
          raised |-> TRUE, closed |-> FALSE]
    ELSE [is_acquiring |-> FALSE,
          camera_buffer |-> IF mic.is_acquiring THEN None ELSE mic.camera_buffer,
          data_buffer |-> new_buffer, number_of_frames |-> n_frames,
          raised |-> FALSE, closed |-> mic.is_acquiring]

\* the buffer of the camera's image series after the device calls of an
\* operation: close_image_series detaches it, initialize_image_series
\* (line 438) attaches the microscope's data_buffer
RECURSIVE attached_after(_, _, _)
attached_after(calls, attached, buffer) ==
    IF calls = <<>> THEN attached
    ELSE attached_after(Tail(calls),
                        IF Head(calls).dev = "camera"
                           /\ Head(calls).op = "close_image_series" THEN None
                        ELSE IF Head(calls).dev = "camera"
                                /\ Head(calls).op = "initialize_image_series"
                        THEN Some(buffer)
                        ELSE attached,
                        buffer)

\* update_data_buffer with a newly allocated buffer
UpdateDataBuffer(n_frames, fail) ==
    /\ data_buffer < MaxBuffers
    /\ fail => (camera_is_acquiring /\ faults < MaxFaults)
    /\ \E r \in {update_data_buffer([is_acquiring |-> camera_is_acquiring,
                                     camera_buffer |-> camera_buffer,
                                     data_buffer |-> data_buffer,
                                     number_of_frames |-> number_of_frames],
                                    data_buffer + 1, n_frames, fail)} :
          /\ camera_is_acquiring' = r.is_acquiring
          /\ camera_buffer' = r.camera_buffer
          /\ data_buffer' = r.data_buffer
          /\ number_of_frames' = r.number_of_frames
          /\ device_calls' = IF r.closed
                             THEN <<Call("camera", 0, "close_image_series", 0)>>
                             ELSE <<>>
          /\ outcome' = [op |-> "update_data_buffer", raised |-> r.raised,
                         at |-> IF r.raised THEN "close_image_series" ELSE ""]
          /\ faults' = IF r.raised THEN faults + 1 ELSE faults
    /\ UNCHANGED <<channels, current_channel, available_channels, central_focus,
                   current_laser_index, ask_stage_for_position, ret_pos_dict,
                   laser_on, shutter_open, stage_pos, ring>>
    /\ UNCHANGED <<othersOfBuf>>

\* prepare_acquisition, with the buffer its image series is started on
BufPrepareAcquisition(failAt) ==
    /\ \E r \in {prepare_acquisition(Mic, failAt)} :
          /\ CommitMic("prepare_acquisition", r, <<r.current_channel>>)
          /\ camera_buffer' = attached_after(r.device_calls, camera_buffer, data_buffer)
    /\ UNCHANGED <<data_buffer, number_of_frames, othersOfBuf>>

\* end_acquisition, which closes the image series
BufEndAcquisition(failAt) ==
    /\ \E r \in {end_acquisition(Mic, failAt)} :
          /\ CommitMic("end_acquisition", r, <<r.current_channel>>)
          /\ camera_buffer' = attached_after(r.device_calls, camera_buffer, data_buffer)
    /\ UNCHANGED <<data_buffer, number_of_frames, othersOfBuf>>

NextBuffer ==
    \/ \E n_frames \in FrameCounts, fail \in BOOLEAN : UpdateDataBuffer(n_frames, fail)
    \/ \E failAt \in FailPoints(prepare_acquisition_steps) : BufPrepareAcquisition(failAt)
    \/ \E failAt \in FailPoints(end_acquisition_steps) : BufEndAcquisition(failAt)

\* C22: the camera acquires only into the microscope's current data_buffer:
\* an image series on a replaced buffer has been closed
C22_OneWritableBuffer ==
    /\ camera_is_acquiring => camera_buffer = Some(data_buffer)
    /\ camera_buffer # None => camera_buffer = Some(data_buffer)
\* the buffer was replaced while an image series was running on the old
\* one: the series has been closed and nothing is written to either buffer
C22_Witness ==
    /\ outcome.op = "update_data_buffer"
    /\ ~outcome.raised
    /\ device_calls = <<Call("camera", 0, "close_image_series", 0)>>
    /\ data_buffer = 2
    /\ ~camera_is_acquiring
    /\ camera_buffer = None

(***************************************************************************)
(* The position cache: Microscope.get_stage_position and what invalidates  *)
(* it                                                                      *)
(***************************************************************************)
\* the controllers' report_position calls, from controller s on; the call to
\* controller fail_at raises (0: none)
RECURSIVE report_each(_, _, _, _, _, _)
report_each(sl, pos, ret, fail_at, s, calls) ==
    IF s > Len(sl) THEN [ret_pos_dict |-> ret, calls |-> calls, raised |-> FALSE]
    ELSE IF s = fail_at THEN [ret_pos_dict |-> ret, calls |-> calls, raised |-> TRUE]
    ELSE report_each(sl, pos,
                     [a \in Axes |-> IF a \in sl[s] THEN pos[a] ELSE ret[a]],
                     fail_at, s + 1,
                     Append(calls, [stage |-> s, op |-> "report_position", pos |-> <<>>]))

\* a position read that asks the controllers every time
get_stage_position_always_asks(sl, pos, ret, ask, fail_at) ==
    LET r == report_each(sl, pos, ret, fail_at, 1, <<>>)
    IN  [ret_pos_dict |-> r.ret_pos_dict, calls |-> r.calls, raised |-> r.raised,
         ask_stage_for_position |-> r.raised]

\* Microscope.get_stage_position (lines 887-900)
get_stage_position(sl, pos, ret, ask, fail_at) ==
    IF ask
    THEN LET r == report_each(sl, pos, ret, fail_at, 1, <<>>)
         IN  [ret_pos_dict |-> r.ret_pos_dict, calls |-> r.calls, raised |-> r.raised,
              ask_stage_for_position |-> r.raised]
    ELSE [ret_pos_dict |-> ret, calls |-> <<>>, raised |-> FALSE,
          ask_stage_for_position |-> FALSE]

StopCalls(sl) == [s \in DOMAIN sl |-> [stage |-> s, op |-> "stop", pos |-> <<>>]]

GetStagePosition(fail_at) ==
    \E r \in {get_stage_position(stage_axes, stage_pos, ret_pos_dict,
                                 ask_stage_for_position, fail_at)} :
        /\ fail_at # 0 => ask_stage_for_position
        /\ ask_stage_for_position' = r.ask_stage_for_position
        /\ ret_pos_dict' = r.ret_pos_dict
        /\ last_move' = [NoMove EXCEPT !.op = "get_stage_position",
                                       !.read = r.ret_pos_dict,
                                       !.status = IF r.raised THEN "raised" ELSE "returned",
                                       !.calls = r.calls]
        /\ UNCHANGED <<channels, current_channel, available_channels, central_focus,
                       current_laser_index, laser_on, shutter_open, stage_pos,
                       camera_is_acquiring, device_calls, outcome, faults, ring>>
        /\ UNCHANGED <<stage_axes, stage_offsets, stage_limits, othersOfStg>>

\* Microscope.stop_stage (lines 877-885): the cache is invalidated, every
\* controller stopped, and the position read again for the central focus
StopStage ==
    \E r \in {get_stage_position(stage_axes, stage_pos, ret_pos_dict, TRUE, 0)} :
        /\ ask_stage_for_position' = r.ask_stage_for_position
        /\ ret_pos_dict' = r.ret_pos_dict
        /\ central_focus' = Some(r.ret_pos_dict["f"])
        /\ last_move' = [NoMove EXCEPT !.op = "stop_stage", !.read = r.ret_pos_dict,
                                       !.calls = StopCalls(stage_axes) \o r.calls]
        /\ UNCHANGED <<channels, current_channel, available_channels,
                       current_laser_index, laser_on, shutter_open, stage_pos,
                       camera_is_acquiring, device_calls, outcome, faults, ring>>
        /\ UNCHANGED <<stage_axes, stage_offsets, stage_limits, othersOfStg>>

\* Microscope.update_stage_limits (lines 913-924)
UpdateStageLimits(limits_flag) ==
    /\ ask_stage_for_position' = TRUE
    /\ stage_limits' = limits_flag
    /\ last_move' = [NoMove EXCEPT !.op = "update_stage_limits"]
    /\ UNCHANGED <<channels, current_channel, available_channels, central_focus,
                   current_laser_index, ret_pos_dict, laser_on, shutter_open, stage_pos,
                   camera_is_acquiring, device_calls, outcome, faults, ring>>
    /\ UNCHANGED <<stage_axes, stage_offsets, othersOfStg>>

\* one controller for every axis, the two of the configuration, and two
\* that leave axes without a controller
CacheInit ==
    /\ stage_axes \in {stages_list, <<{"x", "y", "z", "f"}>>, <<{"f"}, {"x"}>>}
    /\ stage_offsets = [m \in Microscopes |-> [a \in Axes |-> 0]]
    /\ last_move = NoMove
    /\ stage_limits = TRUE

\* the requests the cache is exercised with: one axis, or all of them
CacheRequests == {r \in Requests : Cardinality(DOMAIN r) \in {1, 4}}

NextCache ==
    \/ \E fail_at \in 0..MaxControllers : GetStagePosition(fail_at)
    \/ StopStage
    \/ \E limits_flag \in BOOLEAN : UpdateStageLimits(limits_flag)
    \/ \E pos_dict \in CacheRequests, ok \in SUBSET DOMAIN stage_axes :
          MoveStage(pos_dict, TRUE, ok)
    \/ \E former \in Microscopes, ok \in SUBSET DOMAIN stage_axes :
          MoveStageOffset(former, ok)

ReportsOf(calls) == {calls[i].stage : i \in {j \in DOMAIN calls : calls[j].op = "report_position"}}
Invalidating == {"none", "move_stage", "move_stage_offset", "update_stage_limits"}
\* C23: a get_stage_position that follows a move, an offset move or a limits
\* update (or is the first one) asks every controller; one that follows a
\* completed position read (its own, or the one stop_stage makes after
\* invalidating) asks no controller and returns the cached position
C23_LazyPositionCache ==
    [][(last_move'.op = "get_stage_position" /\ last_move'.status = "returned") =>
          /\ (last_move.op \in Invalidating \/ last_move.status = "raised")
                => /\ ReportsOf(last_move'.calls) = DOMAIN stage_axes
                   /\ Len(last_move'.calls) = Len(stage_axes)
          /\ (last_move.op \in {"get_stage_position", "stop_stage"}
              /\ last_move.status = "returned")
                => /\ last_move'.calls = <<>>
                   /\ last_move'.read = ret_pos_dict]_vars
\* a read that asked no controller, after a read that followed a move
C23_Witness ==
    /\ last_move.op = "get_stage_position"
    /\ last_move.calls = <<>>
    /\ ~ask_stage_for_position
    /\ ret_pos_dict["x"] = 10
    /\ stage_pos["x"] = 10

(***************************************************************************)
(* StageController: the axes of the stage tab, their limits and the        *)
(* debounced move command                                                  *)
(***************************************************************************)
\* position_min[axis] and position_max[axis]
PositionMin == 0
PositionMax == 2
\* how far beyond the limits a position is typed or stepped
MaxBeyond == 2
\* the inputs counted in one burst; further ones are made but not counted
MaxBurst == 3
Positions == (PositionMin - MaxBeyond)..(PositionMax + MaxBeyond)
StepSizes == {1}
\* the axes of the tab that are modelled
GuiAxes == {"x", "f"}

NoBurst == [n |-> 0, last |-> None]

\* StageController.__init__ and initialize: limits on, nothing typed
GuiIdle ==
    /\ widget_val = [a \in GuiAxes |-> Some(PositionMin)]
    /\ gui_stage_limits = TRUE
    /\ event_id = [a \in GuiAxes |-> None]
    /\ gui_timers = {}
    /\ stage_setting = [a \in GuiAxes |-> PositionMin]
    /\ last_command = None
    /\ gui_burst = [a \in GuiAxes |-> NoBurst]
    /\ gui_last = [kind |-> "none", axis |-> "x", v |-> None, n |-> 0]

Gui == [widget_val |-> widget_val, stage_limits |-> gui_stage_limits,
        event_id |-> event_id, timers |-> gui_timers, stage_setting |-> stage_setting]

OutOfLimits(position) == position < PositionMin \/ position > PositionMax

\* view.after_cancel(id): a timer that is pending is removed
after_cancel(g, id) == [g EXCEPT !.timers = {t \in @ : t.id # id}]

\* view.after(500, lambda: execute("stage", position, axis)); the id is new
\* among the pending timers
after(g, axis, position) ==
    LET used == {t.id[2] : t \in {u \in g.timers : u.axis = axis}}
        n == CHOOSE k \in 1..(Cardinality(used) + 1) :
                 k \notin used /\ \A k2 \in 1..(k - 1) : k2 \in used
    IN  [g EXCEPT !.timers = @ \cup {[id |-> <<axis, n>>, axis |-> axis,
                                      position |-> position]},
                  !.event_id[axis] = Some(<<axis, n>>)]

\* the handler of position_callback without the after_cancel
position_callback_no_cancel(g, axis, focus) ==
    IF ~focus THEN g
    ELSE IF g.widget_val[axis] = None THEN g
    ELSE IF g.stage_limits /\ OutOfLimits(g.widget_val[axis][1]) THEN g
    ELSE after([g EXCEPT !.stage_setting[axis] = g.widget_val[axis][1]],
               axis, g.widget_val[axis][1])

\* the handler of position_callback (lines 566-601); focus: view.focus_get()
position_callback(g, axis, focus) ==
    IF ~focus THEN g
    ELSE LET c == IF g.event_id[axis] # None
                  THEN after_cancel(g, g.event_id[axis][1]) ELSE g
         IN  IF c.widget_val[axis] = None THEN c
             ELSE IF c.stage_limits /\ OutOfLimits(c.widget_val[axis][1]) THEN c
             ELSE after([c EXCEPT !.stage_setting[axis] = c.widget_val[axis][1]],
                        axis, c.widget_val[axis][1])

\* temp of up_btn_handler and down_btn_handler: sign is 1 for up, -1 for down
btn_target(g, axis, sign, step, step_multiple, flip) ==
    LET stage_direction == IF flip THEN -1 ELSE 1
        stepped == g.widget_val[axis][1] + sign * step * stage_direction * step_multiple
    IN  IF g.stage_limits
        THEN (IF stepped > PositionMax THEN PositionMax
              ELSE IF stepped < PositionMin THEN PositionMin
              ELSE stepped)
        ELSE stepped

\* the handlers of up_btn_handler and down_btn_handler (lines 427-447 and
\* 476-496)
btn_handler(g, axis, sign, step, step_multiple, flip, focus) ==
    IF g.widget_val[axis] = None THEN g
    ELSE LET temp == btn_target(g, axis, sign, step, step_multiple, flip)
         IN  IF g.widget_val[axis][1] # temp
             THEN position_callback([g EXCEPT !.widget_val[axis] = Some(temp)],
                                    axis, focus)
             ELSE g

CommitGui(g) ==
    /\ widget_val' = g.widget_val
    /\ gui_stage_limits' = g.stage_limits
    /\ event_id' = g.event_id
    /\ gui_timers' = g.timers
    /\ stage_setting' = g.stage_setting

Counted3(n) == IF n < MaxBurst THEN n + 1 ELSE n

\* the burst of an axis after the input v: an input handled without the
\* focus is no input; a number the range test in force lets pass goes on
\* the burst, anything else ends it
Burst(b, v, focus) ==
    IF ~focus THEN b
    ELSE IF v # None /\ (gui_stage_limits => ~OutOfLimits(v[1]))
         THEN [n |-> Counted3(b.n), last |-> v]
         ELSE NoBurst

\* the user types a position (or empties the entry) and leaves the entry
TypePosition(axis, v, focus) ==
    /\ CommitGui(position_callback([Gui EXCEPT !.widget_val[axis] = v], axis, focus))
    /\ gui_burst' = [gui_burst EXCEPT ![axis] = Burst(@, v, focus)]
    /\ gui_last' = [kind |-> "input", axis |-> axis, v |-> v, n |-> 0]
    /\ UNCHANGED <<last_command, othersOfGui>>

\* an up or down button, with a normal or a five-fold step
PressButton(axis, sign, step, large_step, flip, focus) ==
    /\ \E g \in {btn_handler(Gui, axis, sign, step, IF large_step THEN 5 ELSE 1,
                             flip, focus)} :
          /\ g.widget_val[axis] # None /\ g.widget_val[axis][1] \in Positions
          /\ g # Gui
          /\ CommitGui(g)
          /\ gui_burst' = [gui_burst EXCEPT ![axis] = Burst(@, g.widget_val[axis], focus)]
          /\ gui_last' = [kind |-> "input", axis |-> axis, v |-> g.widget_val[axis], n |-> 0]
    /\ UNCHANGED <<last_command, othersOfGui>>

\* the debounce time of a timer is over (lines 596-599):
\* execute("stage", position, axis)
DebounceFires ==
    \E t \in gui_timers :
        /\ last_command' = Some([axis |-> t.axis, position |-> t.position,
                                 stage_limits |-> gui_stage_limits])
        /\ gui_timers' = gui_timers \ {t}
        /\ gui_burst' = [gui_burst EXCEPT ![t.axis] = NoBurst]
        /\ gui_last' = [kind |-> "command", axis |-> t.axis, v |-> None,
                        n |-> gui_burst[t.axis].n]
        /\ UNCHANGED <<widget_val, gui_stage_limits, event_id, stage_setting, othersOfGui>>

\* Controller.execute("stage_limits", flag) (controller.py line 574)
SetStageLimits(flag) ==
    /\ gui_stage_limits # flag
    /\ gui_stage_limits' = flag
    /\ gui_last' = [kind |-> "limits", axis |-> gui_last.axis, v |-> None, n |-> 0]
    /\ UNCHANGED <<widget_val, event_id, gui_timers, stage_setting, last_command,
                   gui_burst, othersOfGui>>

\* one axis, every position: typing, stepping, the debounce, the limits switch
NextGui ==
    \/ \E v \in {Some(p) : p \in Positions} \cup {None}, focus \in BOOLEAN :
          TypePosition("x", v, focus)
    \/ \E sign \in {1, -1}, step \in StepSizes, large_step \in BOOLEAN,
          flip \in BOOLEAN, focus \in BOOLEAN :
          PressButton("x", sign, step, large_step, flip, focus)
    \/ DebounceFires
    \/ \E flag \in BOOLEAN : SetStageLimits(flag)

\* the positions typed into the two axes of the debounce runs
DebouncePositions == {PositionMin, PositionMax, PositionMax + 1}

\* two axes: every kind of input on x, a pending move on f
NextDebounce ==
    \/ \E v \in {Some(p) : p \in DebouncePositions} \cup {None}, focus \in BOOLEAN :
          TypePosition("x", v, focus)
    \/ TypePosition("f", Some(PositionMax), TRUE)
    \/ PressButton("x", 1, 1, FALSE, FALSE, TRUE)
    \/ DebounceFires
    \/ \E flag \in BOOLEAN : SetStageLimits(flag)

TimersOf(axis) == {t \in gui_timers : t.axis = axis}

\* C35 as stated: after an input in range on an axis, exactly one timer of
\* the axis is pending and it carries that input
C35_DebounceAsStated ==
    (/\ gui_last.kind = "input"
     /\ gui_last.v # None
     /\ ~OutOfLimits(gui_last.v[1]))
    => \E t \in gui_timers :
          TimersOf(gui_last.axis) = {t} /\ t.position = gui_last.v[1]

\* C35 as amended: while an axis has a burst of inputs that were handled
\* with the focus on the application, exactly one timer of the axis is
\* pending and it carries the last of them; the move command it issues ends
\* the burst and leaves no timer of the axis; an input leaves the timers of
\* the other axes alone
C35_Debounce ==
    /\ [](\A a \in GuiAxes :
            gui_burst[a].n >= 1
                => \E t \in gui_timers :
                      TimersOf(a) = {t} /\ t.position = gui_burst[a].last[1])
    /\ [](\A a \in GuiAxes : Cardinality(TimersOf(a)) <= 1)
    /\ [][gui_last'.kind = "command" /\ gui_burst[gui_last'.axis].n >= 1
            => /\ last_command'[1].axis = gui_last'.axis
               /\ last_command'[1].position = gui_burst[gui_last'.axis].last[1]
               /\ {t \in gui_timers' : t.axis = gui_last'.axis} = {}]_vars
    /\ [][gui_last'.kind = "input"
            => \A b \in GuiAxes \ {gui_last'.axis} : TimersOf(b)' = TimersOf(b)]_vars

\* a burst of MaxBurst inputs on x while a timer of f is pending, then the
\* one move command of x with the last input
C35_Witness ==
    /\ gui_last.kind = "command" /\ gui_last.axis = "x"
    /\ gui_last.n = MaxBurst
    /\ last_command = Some([axis |-> "x", position |-> PositionMin, stage_limits |-> TRUE])
    /\ widget_val["x"] = Some(PositionMin)
    /\ stage_setting["x"] = PositionMin
    /\ TimersOf("x") = {}
    /\ Cardinality(TimersOf("f")) = 1

\* C24: a move command issued while the limits are enabled carries a target
\* within [min, max]
C24_MovesWithinLimits ==
    (last_command # None /\ last_command[1].stage_limits)
        => ~OutOfLimits(last_command[1].position)

(***************************************************************************)
(* The ASI serial controllers: read_response and wait_for_device           *)
(***************************************************************************)
\* the largest timeout of a wait, in steps of 0.005 s (waiting_time's step)
MaxTimeout == 3
\* the polls counted in a wait; further polls are made but not counted
MaxPolls == 5

\* Text is a sequence of characters.
ErrorPrefix == <<":", "N">>
\* TigerException.error_codes (lines 71-82)
error_codes ==
    (<<":", "N", "-", "1">> :> "Unknown Command") @@
    (<<":", "N", "-", "2">> :> "Unrecognized Axis Parameter") @@
    (<<":", "N", "-", "3">> :> "Missing parameters") @@
    (<<":", "N", "-", "4">> :> "Parameter Out of Range") @@
    (<<":", "N", "-", "5">> :> "Operation failed") @@
    (<<":", "N", "-", "6">> :> "Undefined Error") @@
    (<<":", "N", "-", "7">> :> "Invalid Card Address") @@
    (<<":", "N", "-", "2", "1">> :> "Serial Command halted by the HALT command")

\* what a reply line carries before its end: an error code, an
\* acknowledgement, a position, or the status of the motors
DataBodies == {<<":", "A">>, <<":", "A", " ", "1">>, <<"B">>, <<"N">>}
Bodies == DOMAIN error_codes \cup DataBodies
\* serial_port.readline() keeps the end of the line; a line cut short by the
\* read timeout has none
LineEnds == {<<"\r", "\n">>, <<>>}
\* the bytes of a line: the text they decode to, or bytes that are not ASCII
RawLines == [text : {b \o e : b \in Bodies, e \in LineEnds}, ascii : BOOLEAN]

startswith(s, prefix) ==
    Len(s) >= Len(prefix) /\ SubSeq(s, 1, Len(prefix)) = prefix

NoError == [class |-> "none", code |-> <<>>, message |-> ""]

\* TigerException(code): the constructor looks the message up by the code
TigerException(code) ==
    IF code \in DOMAIN error_codes
    THEN [class |-> "TigerException", code |-> code, message |-> error_codes[code]]
    ELSE [class |-> "KeyError", code |-> code, message |-> ""]

\* read_response (lines 401-427)
read_response(raw) ==
    IF ~raw.ascii
    THEN [status |-> "returned", data |-> <<>>, exc |-> NoError]
    ELSE IF startswith(raw.text, ErrorPrefix)
         THEN [status |-> "raised", data |-> <<>>, exc |-> TigerException(raw.text)]
         ELSE [status |-> "returned", data |-> raw.text, exc |-> NoError]

\* is_device_busy (lines 603-613): "B" in res
is_device_busy(raw) ==
    LET r == read_response(raw)
    IN  [status |-> r.status, exc |-> r.exc,
         busy |-> r.status = "returned" /\ \E i \in DOMAIN r.data : r.data[i] = "B"]

NoRead == [raw |-> [text |-> <<>>, ascii |-> TRUE], status |-> "none",
           data |-> <<>>, exc |-> NoError]
NoWait == [pc |-> "idle", ctrl |-> "none", device |-> "none", timeout |-> 0,
           waiting_time |-> 0, polls |-> 0, round |-> 0, ended |-> "none"]

AsiIdle ==
    /\ safe_to_write = TRUE
    /\ asi_read = NoRead
    /\ asi_wait = NoWait

\* send_command (lines 377-399)
SendCommand ==
    /\ asi_wait.pc = "idle"
    /\ safe_to_write
    /\ safe_to_write' = FALSE
    /\ UNCHANGED <<asi_read, asi_wait, othersOfAsi>>

\* read_response on the line raw
ReadResponse(raw) ==
    /\ asi_wait.pc = "idle"
    /\ ~safe_to_write
    /\ safe_to_write' = TRUE
    /\ \E r \in {read_response(raw)} :
          asi_read' = [raw |-> raw, status |-> r.status, data |-> r.data, exc |-> r.exc]
    /\ UNCHANGED <<asi_wait, othersOfAsi>>

\* the lines a poll can read from a device: one that is busy for ever
\* answers every poll with B
PollLines(device) ==
    IF device = "always_busy"
    THEN {[text |-> <<"B", "\r", "\n">>, ascii |-> TRUE]}
    ELSE RawLines

Counted(w) == IF w.polls < MaxPolls THEN w.polls + 1 ELSE w.polls

\* the wait after one poll that read raw
polled(w, raw) ==
    LET b == is_device_busy(raw)
        v == [w EXCEPT !.polls = Counted(w), !.round = 1 - @]
    IN  IF b.status = "raised" THEN [v EXCEPT !.pc = "done", !.ended = "raised"]
        ELSE IF b.busy THEN [v EXCEPT !.pc = "waiting"]
        ELSE [v EXCEPT !.pc = "done", !.ended = "ready"]

\* TigerController.wait_for_device up to its loop (lines 623-624)
tiger_wait_start(w, raw) == polled(w, raw)

\* the loop of TigerController.wait_for_device without its timeout
tiger_wait_iteration_no_timeout(w, raw) ==
    polled([w EXCEPT !.waiting_time = @ + 1], raw)

\* one iteration of the loop of TigerController.wait_for_device (lines 626-631)
tiger_wait_iteration(w, raw) ==
    LET v == [w EXCEPT !.waiting_time = @ + 1]
    IN  IF v.waiting_time >= v.timeout
        THEN [v EXCEPT !.pc = "done", !.ended = "timeout"]
        ELSE polled(v, raw)

\* one iteration of the loop of MS2000Controller.wait_for_device (lines 165-166)
ms2000_wait_iteration(w, raw) == polled(w, raw)

\* wait_for_device is called
WaitForDevice(ctrl, timeout, device) ==
    /\ asi_wait.pc = "idle"
    /\ safe_to_write
    /\ LET w == [NoWait EXCEPT !.ctrl = ctrl, !.device = device, !.timeout = timeout]
       IN  IF ctrl = "tiger"
           THEN \E raw \in PollLines(device) : asi_wait' = tiger_wait_start(w, raw)
           ELSE asi_wait' = [w EXCEPT !.pc = "waiting"]
    /\ UNCHANGED <<safe_to_write, asi_read, othersOfAsi>>

WaitIteration ==
    /\ asi_wait.pc = "waiting"
    /\ \E raw \in PollLines(asi_wait.device) :
          asi_wait' = IF asi_wait.ctrl = "tiger"
                      THEN tiger_wait_iteration(asi_wait, raw)
                      ELSE ms2000_wait_iteration(asi_wait, raw)
    /\ UNCHANGED <<safe_to_write, asi_read, othersOfAsi>>

\* wait_for_device has returned (or raised) and the caller goes on
WaitReturns ==
    /\ asi_wait.pc = "done"
    /\ asi_wait' = NoWait
    /\ UNCHANGED <<safe_to_write, asi_read, othersOfAsi>>

NextAsi ==
    \/ SendCommand
    \/ \E raw \in RawLines : ReadResponse(raw)
    \/ \E ctrl \in {"tiger", "ms2000"}, timeout \in 0..MaxTimeout,
          device \in {"always_busy", "free"} : WaitForDevice(ctrl, timeout, device)
    \/ WaitIteration
    \/ WaitReturns

\* the error code of a reply line: the line without its end, when that is a
\* code of the controller
CodeOf(text) ==
    IF text \in DOMAIN error_codes THEN text
    ELSE IF /\ Len(text) >= 2
            /\ SubSeq(text, Len(text) - 1, Len(text)) = <<"\r", "\n">>
            /\ SubSeq(text, 1, Len(text) - 2) \in DOMAIN error_codes
         THEN SubSeq(text, 1, Len(text) - 2)
         ELSE <<>>

\* C28: a reply that begins with the error prefix is raised as a
\* TigerException carrying the code and its message, for every code of the
\* controller, and is never returned as data
C28_ErrorReplyRaised ==
    (/\ asi_read.status # "none"
     /\ asi_read.raw.ascii
     /\ startswith(asi_read.raw.text, ErrorPrefix))
    => /\ asi_read.status = "raised"
       /\ asi_read.exc.class = "TigerException"
       /\ asi_read.exc.code = CodeOf(asi_read.raw.text)
       /\ asi_read.exc.message = error_codes[CodeOf(asi_read.raw.text)]

\* the polls a Tiger wait with this timeout makes at most
PollBound(timeout) == IF timeout > 1 THEN timeout ELSE 1

\* C29: a Tiger wait polls at most as often as its timeout allows, and
\* returns control to its caller even when the device is busy at every poll
C29_TigerWaitBounded ==
    /\ [](asi_wait.ctrl = "tiger" => asi_wait.polls <= PollBound(asi_wait.timeout))
    /\ (asi_wait.ctrl = "tiger" /\ asi_wait.pc = "waiting") ~> (asi_wait.pc = "done")

\* a wait on a device that was busy at every poll has ended by its timeout
C29_Witness ==
    /\ asi_wait.ctrl = "tiger"
    /\ asi_wait.device = "always_busy"
    /\ asi_wait.timeout = MaxTimeout
    /\ asi_wait.pc = "done"
    /\ asi_wait.ended = "timeout"
    /\ asi_wait.polls = MaxTimeout

\* C30: an MS2000 wait returns control to its caller even when the device is
\* busy at every poll
C30_Ms2000WaitReturns ==
    (asi_wait.ctrl = "ms2000" /\ asi_wait.pc = "waiting") ~> (asi_wait.pc = "done")

(***************************************************************************)
(* Controller.update_event: the thread that consumes the event queue       *)
(***************************************************************************)
\* the events put on the queue in one run
MaxEvents == 3
\* the failures of update_stage_controller_silent in a row
MaxRaises == 11
\* the tries of the update_stage branch (line 992)
UpdateStageTries == 10

HandledEvents ==
    {"waveform", "multiposition", "ilastik_mask", "autofocus", "stop",
     "update_stage", "framerate"}
\* names update_event has no branch for
OtherEvents == {"warning", "exposure_time"}
EventNames == HandledEvents \cup OtherEvents

EvtIdle ==
    /\ event_queue = <<>>
    /\ event_loop = [pc |-> "running", put |-> 0, handled |-> <<>>]

\* the body of the while loop for an event without a branch ending the loop
update_event_strict(event, has_popup, raises) ==
    IF event = "stop" \/ event \notin HandledEvents
    THEN [pc |-> "stopped", call |-> "none"]
    ELSE [pc |-> "running", call |-> event]

\* the body of the while loop (lines 959-1001) for one event: the handler it
\* calls and whether the loop goes on. has_popup: hasattr(self,
\* "af_popup_controller"); raises: how often update_stage_controller_silent
\* raises RuntimeError before it returns
update_event(event, has_popup, raises) ==
    CASE event = "waveform" -> [pc |-> "running", call |-> "update_waveforms"]
      [] event = "multiposition" -> [pc |-> "running", call |-> "update_table"]
      [] event = "ilastik_mask" -> [pc |-> "running", call |-> "display_mask"]
      [] event = "autofocus" ->
            [pc |-> "running", call |-> IF has_popup THEN "display_plot" ELSE "none"]
      [] event = "stop" -> [pc |-> "stopped", call |-> "none"]
      [] event = "update_stage" ->
            [pc |-> "running",
             call |-> IF raises < UpdateStageTries
                      THEN "update_stage_controller_silent" ELSE "gave_up"]
      [] event = "framerate" -> [pc |-> "running", call |-> "set_max_framerate"]
      [] OTHER -> [pc |-> "running", call |-> "none"]

\* event_queue.put((event, value))
PutEvent(event) ==
    /\ event_loop.put < MaxEvents
    /\ event_queue' = Append(event_queue, event)
    /\ event_loop' = [event_loop EXCEPT !.put = @ + 1]
    /\ UNCHANGED othersOfEvt

\* one turn of the while loop: get an event and handle it
UpdateEventTurn(has_popup, raises) ==
    /\ event_loop.pc = "running"
    /\ event_queue # <<>>
    /\ event_queue' = Tail(event_queue)
    /\ \E r \in {update_event(Head(event_queue), has_popup, raises)} :
          event_loop' = [event_loop EXCEPT
                            !.pc = r.pc,
                            !.handled = Append(@, [event |-> Head(event_queue),
                                                    call |-> r.call])]
    /\ UNCHANGED othersOfEvt

NextEvents ==
    \/ \E event \in EventNames : PutEvent(event)
    \/ \E has_popup \in BOOLEAN, raises \in {0, UpdateStageTries - 1, MaxRaises} :
          UpdateEventTurn(has_popup, raises)

\* C31: an event without a branch calls no handler and leaves the loop
\* running for the events after it; the loop ends only on "stop"
C31_UnknownEventIgnored ==
    /\ \A i \in DOMAIN event_loop.handled :
          event_loop.handled[i].event \in OtherEvents
              => /\ event_loop.handled[i].call = "none"
                 /\ (i < Len(event_loop.handled) \/ event_loop.pc = "running")
    /\ event_loop.pc \in {"running", "stopped"}
    /\ event_loop.pc = "stopped"
          <=> (event_loop.handled # <<>>
               /\ event_loop.handled[Len(event_loop.handled)].event = "stop")

\* an unknown event was taken, and the event after it was handled
C31_Witness ==
    /\ Len(event_loop.handled) = 2
    /\ event_loop.handled[1].event = "warning"
    /\ event_loop.handled[2] = [event |-> "waveform", call |-> "update_waveforms"]
    /\ event_loop.pc = "running"

(***************************************************************************)
(* SequenceDeviceFactory.build_connection: devices found by enumeration    *)
(***************************************************************************)
\* the enumeration slots that can hold a device
MaxSlots == 3
\* the lookups of one run
MaxLookups == 3
\* max_device_num's default
DefaultDeviceNum == 2

\* Serial numbers are sequences of decimal digits. "012" reads as the octal
\* number 10, "09" is no octal number.
SerialNumbers == {<<0, 1, 2>>, <<5, 5>>, <<0, 9>>, <<7>>}
\* the serial numbers asked for: those, the decimal text of 0o12, and one
\* that no device has
LookupNumbers == SerialNumbers \cup {<<1, 0>>, <<4, 2>>}

\* int(s, 8); -1 stands for ValueError
RECURSIVE int8(_, _)
int8(s, acc) ==
    IF s = <<>> THEN acc
    ELSE IF Head(s) > 7 THEN -1
    ELSE int8(Tail(s), acc * 8 + Head(s))

\* str(n) for n >= 0
RECURSIVE str10(_)
str10(n) == IF n < 10 THEN <<n>> ELSE Append(str10(n \div 10), n % 10)

\* the devices at the slots: distinct serial numbers at slots 0, 1, ...
SlotAssignments ==
    {s \in UNION {[1..n -> SerialNumbers] : n \in 1..MaxSlots} :
        \A i, j \in DOMAIN s : i # j => s[i] # s[j]}

\* build_connection_function(i): connects to the device at slot i, and
\* raises on every try when the slot is empty
SlotFunc(slots, i) ==
    [fails |-> IF i + 1 \in DOMAIN slots THEN 0 ELSE DefaultTries,
     then |-> "return", val |-> 1, partial |-> FALSE]

\* the two stores of lines 291-298 for a device with this serial number
store_device(conns, device, number) ==
    LET c1 == (number :> device) @@ conns
    IN  IF number[1] = 0 /\ int8(number, 0) >= 0
        THEN (str10(int8(number, 0)) :> device) @@ c1
        ELSE c1

\* the for loop of lines 289-300 from slot i on; connects: the slots
\* connected to so far in this call
RECURSIVE seq_loop(_, _, _, _, _, _, _)
seq_loop(conns, slots, serial_number, i, max_device_num, connects, count) ==
    IF i >= max_device_num
    THEN [status |-> "raised", exc |-> "device_not_found", device |-> None,
          connections |-> conns, connects |-> connects]
    ELSE LET r == auto_redial(SlotFunc(slots, i), DefaultTries)
         IN  IF r.status = "raised"
             THEN [status |-> "raised", exc |-> "exception", device |-> None,
                   connections |-> conns, connects |-> Append(connects, i)]
             ELSE LET device == [slot |-> i, id |-> count + Len(connects) + 1,
                                 serial_number |-> slots[i + 1]]
                      c == store_device(conns, device, slots[i + 1])
                  IN  IF serial_number \in DOMAIN c
                      THEN [status |-> "returned", exc |-> "none",
                            device |-> Some(c[serial_number]),
                            connections |-> c, connects |-> Append(connects, i)]
                      ELSE seq_loop(c, slots, serial_number, i + 1, max_device_num,
                                    Append(connects, i), count)

\* build_connection that enumerates again whatever is stored
seq_build_connection_again(conns, slots, serial_number, max_device_num, count) ==
    seq_loop(conns, slots, serial_number, 0, max_device_num, <<>>, count)

\* SequenceDeviceFactory.build_connection (lines 282-302) for one device type
seq_build_connection(conns, slots, serial_number, max_device_num, count) ==
    IF serial_number \in DOMAIN conns
    THEN [status |-> "returned", exc |-> "none", device |-> Some(conns[serial_number]),
          connections |-> conns, connects |-> <<>>]
    ELSE seq_loop(conns, slots, serial_number, Cardinality(DOMAIN conns),
                  max_device_num, <<>>, count)

NoLookup == [serial_number |-> <<>>, max_device_num |-> 0, status |-> "none",
             exc |-> "none", device |-> None, connects |-> <<>>, earlier |-> None,
             lookups |-> 0]

SeqIdle ==
    /\ seq_slots = <<<<7>>>>
    /\ seq_connections = <<>>
    /\ seq_returned = <<>>
    /\ seq_count = 0
    /\ last_lookup = NoLookup

\* any devices at the slots, nothing connected yet
SeqInit ==
    /\ seq_slots \in SlotAssignments
    /\ seq_connections = <<>>
    /\ seq_returned = <<>>
    /\ seq_count = 0
    /\ last_lookup = NoLookup

SeqBuildConnection(serial_number, max_device_num) ==
    /\ last_lookup.lookups < MaxLookups
    /\ \E r \in {seq_build_connection(seq_connections, seq_slots, serial_number,
                                      max_device_num, seq_count)} :
          /\ seq_connections' = r.connections
          /\ seq_count' = seq_count + Len(r.connects)
          /\ seq_returned' = IF r.status = "returned"
                             THEN (serial_number :> r.device[1]) @@ seq_returned
                             ELSE seq_returned
          /\ last_lookup' =
                [serial_number |-> serial_number, max_device_num |-> max_device_num,
                 status |-> r.status, exc |-> r.exc, device |-> r.device,
                 connects |-> r.connects,
                 earlier |-> IF serial_number \in DOMAIN seq_returned
                             THEN Some(seq_returned[serial_number]) ELSE None,
                 lookups |-> last_lookup.lookups + 1]
    /\ UNCHANGED <<seq_slots, othersOfSeq>>

NextSeq ==
    \E serial_number \in LookupNumbers, max_device_num \in {DefaultDeviceNum, MaxSlots} :
        SeqBuildConnection(serial_number, max_device_num)

SlotOf(serial_number) ==
    IF \E i \in DOMAIN seq_slots : seq_slots[i] = serial_number
    THEN CHOOSE i \in DOMAIN seq_slots : seq_slots[i] = serial_number
    ELSE 0

\* C37: a lookup for the serial number of a device at a slot below
\* max_device_num returns that device
C37_EnumerationFindsDevice ==
    (/\ last_lookup.status # "none"
     /\ SlotOf(last_lookup.serial_number) # 0
     /\ SlotOf(last_lookup.serial_number) - 1 < last_lookup.max_device_num)
    => /\ last_lookup.status = "returned"
       /\ last_lookup.device[1].slot = SlotOf(last_lookup.serial_number) - 1

(***************************************************************************)
(* Two threads sharing one TigerController                                 *)
(***************************************************************************)
\* the command/response pairs a thread makes
MaxExchanges == 2

Threads == {"t1", "t2"}
TigerCommands == {"W", "RS"}

\* both threads outside send_command, nothing waiting in the input buffer
ThrIdle ==
    /\ thread_pc = [t \in Threads |-> "idle"]
    /\ thread_cmd = [t \in Threads |-> ""]
    /\ exchanges = [t \in Threads |-> 0]
    /\ input_buffer = <<>>
    /\ last_write = [thread |-> "", pending |-> {}]
    /\ last_reply = [thread |-> "", cmd |-> "", reply |-> None]

\* self.safe_to_write.wait() (line 386) returns: the event is set
SafeToWriteWait(t, cmd) ==
    /\ thread_pc[t] = "idle"
    /\ exchanges[t] < MaxExchanges
    /\ safe_to_write
    /\ thread_pc' = [thread_pc EXCEPT ![t] = "waited"]
    /\ thread_cmd' = [thread_cmd EXCEPT ![t] = cmd]
    /\ UNCHANGED <<safe_to_write, exchanges, input_buffer, last_write, last_reply>>
    /\ UNCHANGED <<asi_read, asi_wait, othersOfPort>>

\* self.safe_to_write.clear() and the resets of the buffers (lines 387-390)
SafeToWriteClear(t) ==
    /\ thread_pc[t] = "waited"
    /\ safe_to_write' = FALSE
    /\ input_buffer' = <<>>
    /\ thread_pc' = [thread_pc EXCEPT ![t] = "cleared"]
    /\ UNCHANGED <<thread_cmd, exchanges, last_write, last_reply>>
    /\ UNCHANGED <<asi_read, asi_wait, othersOfPort>>

\* the threads between their send_command and their read_response
Pending == {u \in Threads : thread_pc[u] = "sent"}

\* self.serial_port.write(command) (line 396): the controller's reply to the
\* command joins the input buffer
SerialWrite(t) ==
    /\ thread_pc[t] = "cleared"
    /\ input_buffer' = Append(input_buffer, thread_cmd[t])
    /\ last_write' = [thread |-> t, pending |-> Pending]
    /\ thread_pc' = [thread_pc EXCEPT ![t] = "sent"]
    /\ UNCHANGED <<safe_to_write, thread_cmd, exchanges, last_reply>>
    /\ UNCHANGED <<asi_read, asi_wait, othersOfPort>>

\* read_response (lines 409-410): readline takes the first line waiting, or
\* nothing when it times out, and the event is set
ThreadReadResponse(t) ==
    /\ thread_pc[t] = "sent"
    /\ safe_to_write' = TRUE
    /\ last_reply' = [thread |-> t, cmd |-> thread_cmd[t],
                      reply |-> IF input_buffer = <<>> THEN None
                                ELSE Some(Head(input_buffer))]
    /\ input_buffer' = IF input_buffer = <<>> THEN <<>> ELSE Tail(input_buffer)
    /\ thread_pc' = [thread_pc EXCEPT ![t] = "idle"]
    /\ exchanges' = [exchanges EXCEPT ![t] = @ + 1]
    /\ UNCHANGED <<thread_cmd, last_write>>
    /\ UNCHANGED <<asi_read, asi_wait, othersOfPort>>

NextThreads ==
    \/ \E t \in Threads, cmd \in TigerCommands : SafeToWriteWait(t, cmd)
    \/ \E t \in Threads : SafeToWriteClear(t)
    \/ \E t \in Threads : SerialWrite(t)
    \/ \E t \in Threads : ThreadReadResponse(t)

\* C38: a thread writes its command to the serial port only while no other
\* thread is between its own send_command and its read_response
C38_NoInterleaving ==
    last_write.pending \subseteq {last_write.thread}

\* the registry, the orchestrator and the DAQ after construction
Init == RegInit /\ MicInit /\ DaqInit /\ StageIdle /\ TimingIdle /\ CtlIdle /\ BufIdle /\ GuiIdle /\ AsiIdle /\ EvtIdle /\ SeqIdle /\ ThrIdle

\* with every channel selected, for the parts that do not read the channels
InitAllSelected ==
    Init /\ \A c \in Channels : channels[c].is_selected

\* direct calls of auto_redial
SpecRedial == InitAllSelected /\ [][NextRedial]_vars
\* the two connection factories
SpecReg == InitAllSelected /\ [][NextReg]_vars
\* the orchestrator of one microscope
SpecMic == Init /\ [][NextMic]_vars
\* the synthetic DAQ's writer and runner threads
SpecDaq == InitAllSelected /\ [][NextDaq]_vars
\* the same, each thread going on inside a call it has begun and a thread
\* that waits for the lock getting it when it is free again and again
SpecDaqFair ==
    InitAllSelected /\ [][NextDaq]_vars
    /\ WF_vars(WriterStep) /\ WF_vars(RunnerStep)
    /\ SF_vars(UpdateAcquire) /\ SF_vars(RunAcquire)
\* every assignment of axes to controllers, the stages at rest
InitStage ==
    /\ RegInit /\ MicInit /\ DaqInit /\ StageInit /\ TimingIdle /\ CtlIdle /\ BufIdle /\ GuiIdle /\ AsiIdle /\ EvtIdle /\ SeqIdle /\ ThrIdle
    /\ \A c \in Channels : channels[c].is_selected
\* the configurations with per-microscope stage offsets
InitOffset ==
    /\ RegInit /\ MicInit /\ DaqInit /\ OffsetInit /\ TimingIdle /\ CtlIdle /\ BufIdle /\ GuiIdle /\ AsiIdle /\ EvtIdle /\ SeqIdle /\ ThrIdle
    /\ \A c \in Channels : channels[c].is_selected
\* any timing inputs and any selection of channels
InitTiming == RegInit /\ MicInit /\ DaqInit /\ StageIdle /\ TimingInit /\ CtlIdle /\ BufIdle /\ GuiIdle /\ AsiIdle /\ EvtIdle /\ SeqIdle /\ ThrIdle

\* two stage devices with any of the configured axes lists
InitConfig ==
    /\ RegInit /\ MicInit /\ DaqInit /\ ConfigInit /\ TimingIdle /\ CtlIdle /\ BufIdle /\ GuiIdle /\ AsiIdle /\ EvtIdle /\ SeqIdle /\ ThrIdle
    /\ \A c \in Channels : channels[c].is_selected
\* Microscope.move_stage after the construction from any such configuration
SpecConfig == InitConfig /\ [][NextStage]_vars
\* Microscope.move_stage over every assignment of axes to controllers
SpecStage == InitStage /\ [][NextStage]_vars
\* Microscope.move_stage_offset between the configurations
SpecOffset == InitOffset /\ [][NextOffset]_vars
\* calculate_exposure_sweep_times over the hardware delays, sensor modes,
\* channel selections and exposure times
SpecTiming == InitTiming /\ [][NextTiming]_vars
\* the stored plan while the timing inputs change
SpecPlan == Init /\ [][NextPlan]_vars
\* the capture loop and the messages of the worker
SpecCapture == InitAllSelected /\ [][NextCapture]_vars
\* the commands of the coordinator and the worker that takes them up
SpecCommands == InitAllSelected /\ [][NextCommands]_vars
\* the same, the worker finishing what it processes and sloppy_stop going
\* round its loop
SpecCommandsFair ==
    /\ InitAllSelected /\ [][NextCommands]_vars
    /\ WF_vars(WorkerFinish) /\ WF_vars(StopGetsThrough)
\* the data buffer replaced between and during acquisitions
SpecBuffer == InitAllSelected /\ [][NextBuffer]_vars
\* the position cache between moves, stops and reads
InitCache ==
    /\ RegInit /\ MicInit /\ DaqInit /\ CacheInit /\ TimingIdle /\ CtlIdle /\ BufIdle /\ GuiIdle /\ AsiIdle /\ EvtIdle /\ SeqIdle /\ ThrIdle
    /\ \A c \in Channels : channels[c].is_selected
SpecCache == InitCache /\ [][NextCache]_vars
\* the stage tab: typing, stepping, the debounce and the limits switch
SpecGui == InitAllSelected /\ [][NextGui]_vars
\* the debounce of two axes
SpecDebounce == InitAllSelected /\ [][NextDebounce]_vars
\* the serial controllers: commands, replies and waits
SpecAsi == InitAllSelected /\ [][NextAsi]_vars
\* a wait that is running goes on running
SpecAsiFair == InitAllSelected /\ [][NextAsi]_vars /\ WF_vars(WaitIteration)
\* the event queue and the thread that consumes it
SpecEvents == InitAllSelected /\ [][NextEvents]_vars
\* lookups of sequence devices
InitSeq ==
    /\ RegInit /\ MicInit /\ DaqInit /\ StageIdle /\ TimingIdle /\ CtlIdle /\ BufIdle
    /\ GuiIdle /\ AsiIdle /\ EvtIdle /\ SeqInit /\ ThrIdle
SpecSeq == InitSeq /\ [][NextSeq]_vars
\* two threads making command/response pairs on one TigerController
SpecThreads == InitAllSelected /\ [][NextThreads]_vars

====
